---------------------------- MODULE Spec2Model ----------------------------
(***************************************************************************)
(* Bonus-points ledger of cosmic-sheets: the BP_Total sheet, its source    *)
(* sheets and the redemption log, with the engines that reconcile them.    *)
(* The spreadsheet is modelled cell by cell: a sheet is a grid of cells,   *)
(* its first row the header row, and every engine finds its columns the    *)
(* way its code does (by header text or by fixed position).                *)
(***************************************************************************)
EXTENDS Integers, Sequences, FiniteSets, TLC

VARIABLES
    ss,      \* the spreadsheet: sheet name -> [exists, data]
    clock,   \* the value the next `new Date()` / dateISO() returns
    audit,   \* entries handed to logIntegrityAction, oldest first
    last,    \* the operation that ran last, with what it returned
    calls    \* the invocations in flight, each with its position and its locals

vars == <<ss, clock, audit, last, calls>>

-----------------------------------------------------------------------------
(* Bounds of the model *)

MaxClock == 3
MaxSourceRows == 1

-----------------------------------------------------------------------------
(* Cells *)

Blank == [k |-> "b", n |-> 0, s |-> ""]
Num(x) == [k |-> "n", n |-> x, s |-> ""]
Str(x) == [k |-> "s", n |-> 0, s |-> x]
DateObj(t) == [k |-> "d", n |-> t, s |-> ""]
DateStr(t) == [k |-> "i", n |-> t, s |-> ""]

Max2(a, b) == IF a >= b THEN a ELSE b
Min2(a, b) == IF a <= b THEN a ELSE b

SetMax(S) == IF S = {} THEN 0 ELSE CHOOSE x \in S : \A y \in S : y <= x

\* String.prototype.trim on the texts the model uses.
Trim(s) == IF s = "Ada " THEN "Ada" ELSE IF s = " " THEN "" ELSE s

\* String(x || '') : the text of a cell, '' for a falsy cell.
CellText(c) ==
    IF c.k = "s" THEN c.s
    ELSE IF c.k = "b" \/ (c.k = "n" /\ c.n = 0) THEN ""
    ELSE "#value"

\* coerceNumber(value, fallback): numbers are kept, anything else is the fallback.
coerceNumber(c, fallback) == IF c.k = "n" THEN c.n ELSE fallback

\* clamp(x, lo, hi)
clamp(x, lo, hi) == Max2(lo, Min2(hi, x))

-----------------------------------------------------------------------------
(* Sheets *)

NoSheet == [exists |-> FALSE, data |-> <<>>]
Sheet(d) == [exists |-> TRUE, data |-> d]

StrRow(names) == [j \in 1..Len(names) |-> Str(names[j])]

Cell(data, i, j) ==
    IF i >= 1 /\ i <= Len(data) /\ j >= 1 /\ j <= Len(data[i]) THEN data[i][j] ELSE Blank

getLastRow(sh) == Len(sh.data)
getLastColumn(sh) == IF Len(sh.data) = 0 THEN 0 ELSE Len(sh.data[1])

\* sheet.getDataRange().getValues(): an empty sheet reads as one blank cell.
getValues(sh) == IF Len(sh.data) = 0 THEN <<<<Blank>>>> ELSE sh.data

\* A function on 1..n as the sequence it is: TLC then evaluates each cell of a
\* grid once instead of once per read.
AsSeq(f) == f \o <<>>

\* range(r, c, rows x cols).setValues(block), for a block of at least one row.
\* The grid grows to hold the block; every write of the engines puts content
\* in the last row and the last column it touches, so the grid stays the
\* sheet's data range.
setValues(sh, r, c, block) ==
    [sh EXCEPT !.data =
        AsSeq([i \in 1..Max2(Len(sh.data), r + Len(block) - 1) |->
            AsSeq([j \in 1..Max2(getLastColumn(sh), c + Len(block[1]) - 1) |->
                IF i >= r /\ i < r + Len(block) /\ j >= c /\ j < c + Len(block[1])
                THEN block[i - r + 1][j - c + 1]
                ELSE Cell(sh.data, i, j)])])]

setValue(sh, r, c, v) == setValues(sh, r, c, <<<<v>>>>)

appendRow(sh, row) == setValues(sh, getLastRow(sh) + 1, 1, <<row>>)

\* headers.indexOf(name): 1-based, 0 when absent (the code's -1).
indexOf(headers, name) ==
    IF \E j \in 1..Len(headers) : headers[j] = Str(name)
    THEN CHOOSE j \in 1..Len(headers) :
             /\ headers[j] = Str(name)
             /\ \A k \in 1..(j - 1) : headers[k] # Str(name)
    ELSE 0

\* colIdx[headers[i]] = i for every i: a repeated header keeps its last column.
colIdxOf(headers, name) ==
    SetMax({j \in 1..Len(headers) : headers[j] = Str(name)})

-----------------------------------------------------------------------------
(* Names and texts *)

Players == {"Ada", "Bob"}

RECURSIVE SumSeq(_)
SumSeq(q) == IF Len(q) = 0 THEN 0 ELSE q[1] + SumSeq(Tail(q))

\* array.filter(n => n): the non-empty texts, in order.
NonEmpty(q) == SelectSeq(q, LAMBDA x : x # "")

NamesIn(q) == {q[i] : i \in 1..Len(q)}

\* String(headers[i]).trim()
HeaderText(c) == IF c.k = "s" THEN Trim(c.s) ELSE IF c.k = "b" THEN "" ELSE "#value"

\* pointsHeaderName.replace(/ /g, '_')
Underscored(h) ==
    IF h = "Attendance Mission Points" THEN "Attendance_Mission_Points"
    ELSE IF h = "Flag Mission Points" THEN "Flag_Mission_Points"
    ELSE h

\* The first column whose trimmed header is one of `texts`, 0 when there is none.
FirstHeaderIn(headers, texts) ==
    IF \E j \in 1..Len(headers) : HeaderText(headers[j]) \in texts
    THEN CHOOSE j \in 1..Len(headers) :
             /\ HeaderText(headers[j]) \in texts
             /\ \A k \in 1..(j - 1) : HeaderText(headers[k]) \notin texts
    ELSE 0

-----------------------------------------------------------------------------
(* part_000: schema enforcement *)

BP_TOTAL_HEADERS ==
    <<"PreferredName", "BP_Current", "Attendance Mission Points", "Flag Mission Points",
      "Dice Roll Points", "LastUpdated", "BP_Historical", "BP_Redeemed">>

BP_REDEEMED_LOG_HEADERS ==
    <<"Timestamp", "PreferredName", "BP_Amount", "Reason", "Category", "Event_ID",
      "Staff", "RowId">>

\* BP_HEADER_SYNONYMS[h] || h, on the header texts the model uses.
BP_HEADER_SYNONYMS(h) ==
    IF h \in {"Preferred Name", "preferred_name_id", "Player", "Player Name", "Name"}
    THEN "PreferredName"
    ELSE IF h \in {"Current_BP", "Current BP", "BP", "Bonus_Points"} THEN "BP_Current"
    ELSE IF h \in {"Historical_BP", "Historical BP", "Total_Earned"} THEN "BP_Historical"
    ELSE IF h \in {"Redeemed_BP", "Redeemed BP", "BP Redeemed", "Total_Spent"} THEN "BP_Redeemed"
    ELSE IF h = "Attendance Points" THEN "Attendance Mission Points"
    ELSE IF h = "Flag Points" THEN "Flag Mission Points"
    ELSE IF h = "Dice Points" THEN "Dice Roll Points"
    ELSE h

\* A faulty variant: the canonical headers are written after the last column.
ensureBPTotalSchemaAfterLast_(s) ==
    [s EXCEPT !["BP_Total"] =
        IF ~s["BP_Total"].exists THEN Sheet(<<StrRow(BP_TOTAL_HEADERS)>>)
        ELSE setValues(s["BP_Total"], 1, getLastColumn(s["BP_Total"]) + 1,
                       <<StrRow(BP_TOTAL_HEADERS)>>)]

\* A missing or empty BP_Total gets the header row; any other BP_Total has its
\* first eight header cells overwritten with the canonical headers, whatever
\* they held, and every other cell left alone.
ensureBPTotalSchema_(s) ==
    [s EXCEPT !["BP_Total"] =
        IF ~s["BP_Total"].exists THEN Sheet(<<StrRow(BP_TOTAL_HEADERS)>>)
        ELSE setValues(s["BP_Total"], 1, 1, <<StrRow(BP_TOTAL_HEADERS)>>)]

ensureBPRedeemedLogSchema_(s) ==
    IF ~s["BP_Redeemed_Log"].exists \/ getLastRow(s["BP_Redeemed_Log"]) = 0
    THEN [s EXCEPT !["BP_Redeemed_Log"] = Sheet(<<StrRow(BP_REDEEMED_LOG_HEADERS)>>)]
    ELSE s

-----------------------------------------------------------------------------
(* part_000: points maps.  A map { name: points } is read only through     *)
(* map[name] || 0, so it is given as the value that lookup returns.        *)

keyAliases ==
    {"PreferredName", "Preferred Name", "preferred_name_id", "Player", "Player Name", "Name"}

\* The sum, over the data rows whose trimmed key is the name, of the points cell.
SumPoints(data, keyCol, pointsCol, name) ==
    IF keyCol = 0 \/ pointsCol = 0 \/ name = "" THEN 0
    ELSE SumSeq([i \in 1..(Len(data) - 1) |->
                    IF Trim(CellText(Cell(data, i + 1, keyCol))) = name
                    THEN coerceNumber(Cell(data, i + 1, pointsCol), 0)
                    ELSE 0])

getPointsMapFromSheet_(s, sheetName, keyHeaderName, pointsHeaderName, name) ==
    IF ~s[sheetName].exists \/ getLastRow(s[sheetName]) <= 1 THEN 0
    ELSE SumPoints(s[sheetName].data,
                   FirstHeaderIn(s[sheetName].data[1], keyAliases \cup {keyHeaderName}),
                   FirstHeaderIn(s[sheetName].data[1],
                                 {pointsHeaderName, "Points", Underscored(pointsHeaderName)}),
                   name)

\* A faulty variant: a value of 'Dice_Points' replaces the one of 'Dice Roll Points'.
getDicePointsOverwritten_(s, name) ==
    IF getPointsMapFromSheet_(s, "Dice_Points", "PreferredName", "Points", name) # 0
    THEN getPointsMapFromSheet_(s, "Dice_Points", "PreferredName", "Points", name)
    ELSE getPointsMapFromSheet_(s, "Dice Roll Points", "PreferredName", "Points", name)

getCombinedDicePointsMap_(s, name) ==
    getPointsMapFromSheet_(s, "Dice Roll Points", "PreferredName", "Points", name)
    + getPointsMapFromSheet_(s, "Dice_Points", "PreferredName", "Points", name)

\* A faulty variant: the amounts are summed without grouping them by player.
SumRedeemedAllRows(data, nameCol, amountCol, name) ==
    IF nameCol = 0 \/ amountCol = 0 \/ name = "" THEN 0
    ELSE SumSeq([i \in 1..(Len(data) - 1) |->
                    IF coerceNumber(Cell(data, i + 1, amountCol), 0) > 0
                    THEN coerceNumber(Cell(data, i + 1, amountCol), 0)
                    ELSE 0])

\* The sum of the positive amounts on the log rows whose trimmed name is the name.
SumRedeemed(data, nameCol, amountCol, name) ==
    IF nameCol = 0 \/ amountCol = 0 \/ name = "" THEN 0
    ELSE SumSeq([i \in 1..(Len(data) - 1) |->
                    IF /\ Trim(CellText(Cell(data, i + 1, nameCol))) = name
                       /\ coerceNumber(Cell(data, i + 1, amountCol), 0) > 0
                    THEN coerceNumber(Cell(data, i + 1, amountCol), 0)
                    ELSE 0])

getRedeemedMapFromLog_(s, name) ==
    IF ~s["BP_Redeemed_Log"].exists \/ getLastRow(s["BP_Redeemed_Log"]) <= 1 THEN 0
    ELSE SumRedeemed(s["BP_Redeemed_Log"].data,
                     indexOf(s["BP_Redeemed_Log"].data[1], "PreferredName"),
                     indexOf(s["BP_Redeemed_Log"].data[1], "BP_Amount"),
                     name)

\* Column A below the header, trimmed, blanks dropped.
ColumnANames(sh) ==
    NonEmpty([i \in 1..(getLastRow(sh) - 1) |-> Trim(CellText(Cell(sh.data, i + 1, 1)))])

getAllPreferredNames_(s) ==
    IF ~s["PreferredNames"].exists THEN [threw |-> TRUE, names |-> <<>>]
    ELSE IF getLastRow(s["PreferredNames"]) <= 1 THEN [threw |-> FALSE, names |-> <<>>]
    ELSE [threw |-> FALSE, names |-> ColumnANames(s["PreferredNames"])]

-----------------------------------------------------------------------------
(* part_000: the full reconciliation *)

\* The result of a call: the spreadsheet it leaves, whether it threw, the
\* error code, the value returned and the audit entries it emitted.
Returned(s, ret, entries) ==
    [s |-> s, threw |-> FALSE, err |-> "", ret |-> ret, audit |-> entries]
Threw(s, err, entries) ==
    [s |-> s, threw |-> TRUE, err |-> err, ret |-> 0, audit |-> entries]

\* The roster: PreferredNames, else Key_Tracker.  none: neither sheet exists.
RosterOf(s) ==
    IF s["PreferredNames"].exists
    THEN [none |-> FALSE, names |-> getAllPreferredNames_(s).names]
    ELSE IF ~s["Key_Tracker"].exists THEN [none |-> TRUE, names |-> <<>>]
    ELSE [none |-> FALSE, names |-> ColumnANames(s["Key_Tracker"])]

\* const curr = Math.max(0, hist - red)
CurrentOf(hist, red) == Max2(0, hist - red)

\* A faulty variant: the dice points are left out of the total.
DerivedWithoutDice(name, att, flag, dice, red) ==
    [name |-> name, att |-> att, flag |-> flag, dice |-> dice, hist |-> att + flag,
     red |-> red, curr |-> CurrentOf(att + flag, red)]

\* The values computed for one roster name from its four map lookups.
Derived(name, att, flag, dice, red) ==
    [name |-> name, att |-> att, flag |-> flag, dice |-> dice, hist |-> att + flag + dice,
     red |-> red, curr |-> CurrentOf(att + flag + dice, red)]

DerivedOf(s, name) ==
    Derived(name,
            getPointsMapFromSheet_(s, "Attendance_Missions", "PreferredName",
                                   "Attendance Mission Points", name),
            getPointsMapFromSheet_(s, "Flag_Missions", "PreferredName",
                                   "Flag Mission Points", name),
            getCombinedDicePointsMap_(s, name),
            getRedeemedMapFromLog_(s, name))

\* existingPlayers[name]: the sheet row (1-based) of the last data row with that
\* trimmed name, 0 when there is none.
ExistingRow(data, nameCol, name) ==
    SetMax({i \in 2..Len(data) : Trim(CellText(Cell(data, i, nameCol))) = name})

\* The cell a derived record puts under the header at column j.
DerivedCell(headers, j, d, now) ==
    IF j = colIdxOf(headers, "PreferredName") THEN Str(d.name)
    ELSE IF j = colIdxOf(headers, "BP_Current") THEN Num(d.curr)
    ELSE IF j = colIdxOf(headers, "Attendance Mission Points") THEN Num(d.att)
    ELSE IF j = colIdxOf(headers, "Flag Mission Points") THEN Num(d.flag)
    ELSE IF j = colIdxOf(headers, "Dice Roll Points") THEN Num(d.dice)
    ELSE IF j = colIdxOf(headers, "LastUpdated") THEN DateObj(now)
    ELSE IF j = colIdxOf(headers, "BP_Historical") THEN Num(d.hist)
    ELSE IF j = colIdxOf(headers, "BP_Redeemed") THEN Num(d.red)
    ELSE Blank

RowCells(headers, d, now, width) == [j \in 1..width |-> DerivedCell(headers, j, d, now)]

\* A faulty variant: rows that exist are left as they are.
WriteNoUpdates(sh, s, existingData, names, now) == sh

\* The batch of writes: every roster name with a row has that row's first eight
\* cells rewritten, in roster order, whatever the row held.
RECURSIVE WriteUpdates(_, _, _, _, _)
WriteUpdates(sh, s, existingData, names, now) ==
    IF Len(names) = 0 THEN sh
    ELSE WriteUpdates(
             IF ExistingRow(existingData, colIdxOf(existingData[1], "PreferredName"),
                            names[1]) > 0
             THEN setValues(sh,
                            ExistingRow(existingData,
                                        colIdxOf(existingData[1], "PreferredName"), names[1]),
                            1,
                            <<RowCells(existingData[1], DerivedOf(s, names[1]), now, 8)>>)
             ELSE sh,
             s, existingData, Tail(names), now)

RowsFor(s, headers, fresh, now) ==
    [k \in 1..Len(fresh) |-> RowCells(headers, DerivedOf(s, fresh[k]), now, Len(headers))]

\* A faulty variant: a row is appended for every roster entry, with or without a row.
NewRowsForAll(s, existingData, names, now) == RowsFor(s, existingData[1], names, now)

\* One new row, as wide as the header row, for every roster entry without a row.
NewRows(s, existingData, names, now) ==
    RowsFor(s, existingData[1],
            SelectSeq(names, LAMBDA n :
                ExistingRow(existingData, colIdxOf(existingData[1], "PreferredName"), n) = 0),
            now)

AppendRows(sh, rows) ==
    IF Len(rows) > 0 THEN setValues(sh, getLastRow(sh) + 1, 1, rows) ELSE sh

BP_SYNC_ENTRY == [action |-> "BP_SYNC", status |-> "SUCCESS"]

\* The run once the schemas are ensured and a non-empty roster is loaded.
SyncRows(s, allNames, existingData, now) ==
    IF \E h \in NamesIn(BP_TOTAL_HEADERS) : colIdxOf(existingData[1], h) = 0
    THEN Threw(s, "SCHEMA_INVALID", <<>>)
    ELSE Returned([s EXCEPT !["BP_Total"] =
                      AppendRows(WriteUpdates(s["BP_Total"], s, existingData, allNames, now),
                                 NewRows(s, existingData, allNames, now))],
                  Len(allNames), <<BP_SYNC_ENTRY>>)

SyncRoster(s, roster, now) ==
    IF roster.none THEN Threw(s, "SHEET_MISSING", <<>>)
    ELSE IF Len(roster.names) = 0 THEN Returned(s, 0, <<>>)
    ELSE SyncRows(s, roster.names, getValues(s["BP_Total"]), now)

SyncEnsured(s, now) == SyncRoster(s, RosterOf(s), now)

updateBPTotalFromSources(s0, now) ==
    SyncEnsured(ensureBPRedeemedLogSchema_(ensureBPTotalSchema_(s0)), now)

-----------------------------------------------------------------------------
(* bp_sync.js and part_001: the schema the award/redeem service ensures *)

ENHANCED_HEADERS ==
    <<"PreferredName", "Current_BP", "Attendance Missions", "Flag Missions",
      "Dice Roll Points", "Historical_BP", "LastUpdated">>

minimalHeaders == <<"PreferredName", "Current_BP", "BP_Historical", "LastUpdated">>

\* The headers of `required` that the header row lacks, in order.
MissingHeaders(headers, required) ==
    SelectSeq(required, LAMBDA h : indexOf(headers, h) = 0)

\* The missing headers are written after the last column of the header row.
AddMissingHeaders(sh, required) ==
    IF Len(MissingHeaders(sh.data[1], required)) = 0 THEN sh
    ELSE setValues(sh, 1, Len(sh.data[1]) + 1,
                   <<StrRow(MissingHeaders(sh.data[1], required))>>)

ensureBPTotalSchemaEnhanced_(s) ==
    [s EXCEPT !["BP_Total"] =
        IF ~s["BP_Total"].exists \/ getLastRow(s["BP_Total"]) = 0
        THEN Sheet(<<StrRow(ENHANCED_HEADERS)>>)
        ELSE AddMissingHeaders(s["BP_Total"], ENHANCED_HEADERS)]

ensureBPTotalSchema(s) ==
    IF ~s["BP_Total"].exists \/ getLastRow(s["BP_Total"]) = 0
    THEN ensureBPTotalSchemaEnhanced_(s)
    ELSE [s EXCEPT !["BP_Total"] = AddMissingHeaders(s["BP_Total"], minimalHeaders)]

-----------------------------------------------------------------------------
(* part_001: balance read and write *)

\* coerceNumber(throttle.BP_Global_Cap, 100) with no throttle override
BP_Global_Cap == 100

\* The first data row whose cell at nameCol is exactly the text, 0 when none.
FindRow(data, nameCol, name) ==
    IF \E i \in 2..Len(data) : Cell(data, i, nameCol) = Str(name)
    THEN CHOOSE i \in 2..Len(data) :
             /\ Cell(data, i, nameCol) = Str(name)
             /\ \A k \in 2..(i - 1) : Cell(data, k, nameCol) # Str(name)
    ELSE 0

\* The balance cell of the player's row, 0 without the columns or the row.
BalanceIn(data, nameCol, bpCol, preferredName) ==
    IF nameCol = 0 \/ bpCol = 0 THEN 0
    ELSE IF FindRow(data, nameCol, preferredName) = 0 THEN 0
    ELSE coerceNumber(Cell(data, FindRow(data, nameCol, preferredName), bpCol), 0)

\* A variant that reads the balance under the header BP_Current.
getPlayerBPCanonical(s, preferredName) ==
    IF ~s["BP_Total"].exists THEN 0
    ELSE BalanceIn(getValues(s["BP_Total"]),
                   indexOf(getValues(s["BP_Total"])[1], "PreferredName"),
                   indexOf(getValues(s["BP_Total"])[1], "BP_Current"),
                   preferredName)

getPlayerBP(s, preferredName) ==
    IF ~s["BP_Total"].exists THEN 0
    ELSE BalanceIn(getValues(s["BP_Total"]),
                   indexOf(getValues(s["BP_Total"])[1], "PreferredName"),
                   indexOf(getValues(s["BP_Total"])[1], "Current_BP"),
                   preferredName)

PRESTIGE_HEADERS == <<"PreferredName", "Total_Overflow", "Last_Updated", "Prestige_Tier">>

\* A faulty variant: the new overflow replaces the stored total.
AddOverflowReplacing(sh, playerRow, preferredName, overflow, now) ==
    IF playerRow = 0
    THEN appendRow(sh, <<Str(preferredName), Num(overflow), DateStr(now), Str("Bronze")>>)
    ELSE setValue(setValue(sh, playerRow, 2, Num(overflow)), playerRow, 3, DateStr(now))

\* The overflow sheet with the player's total raised, the player's row given.
AddOverflowAt(sh, playerRow, preferredName, overflow, now) ==
    IF playerRow = 0
    THEN appendRow(sh, <<Str(preferredName), Num(overflow), DateStr(now), Str("Bronze")>>)
    ELSE setValue(setValue(sh, playerRow, 2,
                           Num(coerceNumber(Cell(sh.data, playerRow, 2), 0) + overflow)),
                  playerRow, 3, DateStr(now))

AddOverflowTo(sh, preferredName, overflow, now) ==
    AddOverflowAt(sh, FindRow(getValues(sh), 1, preferredName), preferredName, overflow, now)

addPrestigeOverflow_(s, preferredName, overflow, now) ==
    [s EXCEPT !["Prestige_Overflow"] =
        AddOverflowTo(IF s["Prestige_Overflow"].exists THEN s["Prestige_Overflow"]
                      ELSE Sheet(<<StrRow(PRESTIGE_HEADERS)>>),
                      preferredName, overflow, now)]

PRESTIGE_ENTRY == [action |-> "PRESTIGE_OVERFLOW", status |-> "SUCCESS"]

\* setValue on a column that was found; a column that was not found is skipped.
SetIfCol(sh, r, c, v) == IF c # 0 THEN setValue(sh, r, c, v) ELSE sh

\* The BP_Total sheet after setPlayerBP wrote the player's row (playerRow = 0:
\* a new row as wide as the header row is appended).
WriteBalance(sh, playerRow, nameCol, bpCol, historicalCol, updatedCol, preferredName, amount, now) ==
    IF playerRow = 0
    THEN appendRow(sh, [j \in 1..Len(getValues(sh)[1]) |->
                          IF j = updatedCol THEN DateStr(now)
                          ELSE IF j = historicalCol THEN Num(amount)
                          ELSE IF j = bpCol THEN Num(clamp(amount, 0, BP_Global_Cap))
                          ELSE IF j = nameCol THEN Str(preferredName)
                          ELSE Blank])
    ELSE SetIfCol(
             SetIfCol(setValue(sh, playerRow, bpCol, Num(clamp(amount, 0, BP_Global_Cap))),
                      playerRow, historicalCol,
                      Num(Max2(coerceNumber(Cell(sh.data, playerRow, historicalCol), 0),
                               amount))),
             playerRow, updatedCol, DateStr(now))

SetBalanceIn(s2, headers, nameCol, bpCol, preferredName, amount, now, entries) ==
    IF nameCol = 0 \/ bpCol = 0 THEN Threw(s2, "SCHEMA_INVALID", entries)
    ELSE Returned([s2 EXCEPT !["BP_Total"] =
                      WriteBalance(s2["BP_Total"],
                                   FindRow(getValues(s2["BP_Total"]), nameCol, preferredName),
                                   nameCol, bpCol, indexOf(headers, "BP_Historical"),
                                   indexOf(headers, "LastUpdated"),
                                   preferredName, amount, now)],
                  0, entries)

SetBalance(s2, preferredName, amount, now, entries) ==
    SetBalanceIn(s2, getValues(s2["BP_Total"])[1],
                 indexOf(getValues(s2["BP_Total"])[1], "PreferredName"),
                 indexOf(getValues(s2["BP_Total"])[1], "Current_BP"),
                 preferredName, amount, now, entries)

setPlayerBP(s0, preferredName, amount, now) ==
    IF amount > BP_Global_Cap
    THEN SetBalance(addPrestigeOverflow_(ensureBPTotalSchema(s0), preferredName,
                                         amount - BP_Global_Cap, now),
                    preferredName, amount, now, <<PRESTIGE_ENTRY>>)
    ELSE SetBalance(ensureBPTotalSchema(s0), preferredName, amount, now, <<>>)

BP_AWARD_ENTRY == [action |-> "BP_AWARD", status |-> "SUCCESS"]

AwardOutcome(r, newAmount) ==
    IF r.threw THEN r ELSE Returned(r.s, newAmount, r.audit \o <<BP_AWARD_ENTRY>>)

awardBP(s, preferredName, amount, now) ==
    AwardOutcome(setPlayerBP(s, preferredName, getPlayerBP(s, preferredName) + amount, now),
                 getPlayerBP(s, preferredName) + amount)

BP_REDEEM_ENTRY == [action |-> "BP_REDEEM", status |-> "SUCCESS"]

\* The memo redemption once the schema is ensured: the balance is read, a
\* request above it throws, otherwise the balance is set to what remains.
RedeemMemoIn(s1, preferredName, currentBP, amount, now) ==
    IF currentBP < amount THEN Threw(s1, "INSUFFICIENT_BP", <<>>)
    ELSE IF setPlayerBP(s1, preferredName, currentBP - amount, now).threw
    THEN setPlayerBP(s1, preferredName, currentBP - amount, now)
    ELSE Returned(setPlayerBP(s1, preferredName, currentBP - amount, now).s,
                  currentBP - amount,
                  setPlayerBP(s1, preferredName, currentBP - amount, now).audit
                      \o <<BP_REDEEM_ENTRY>>)

redeemBP_StoreCreditMemo(s, preferredName, amount, now) ==
    RedeemMemoIn(ensureBPTotalSchema(s), preferredName,
                 getPlayerBP(ensureBPTotalSchema(s), preferredName), amount, now)

-----------------------------------------------------------------------------
(* part_000: redemption *)

\* { success: false, error }
Failure(s, err) == [s |-> s, ok |-> FALSE, err |-> err, ret |-> 0, audit |-> <<>>]

BP_REDEEM_LOG_ENTRY == [action |-> "BP_REDEEM_LOG", status |-> "SUCCESS"]

\* logSheet.appendRow(rowData): timestamp, name, amount, reason, category,
\* event id, staff, row id.
AppendLog(s1, preferredName, bpAmount, now) ==
    [s1 EXCEPT !["BP_Redeemed_Log"] =
        appendRow(s1["BP_Redeemed_Log"],
                  <<DateObj(now), Str(preferredName), Num(bpAmount), Blank, Blank,
                    Blank, Str("staff"), Num(now)>>)]

\* What the call returns once the log row is appended and the sync has run:
\* a throw of the sync is caught and reported as a failure.
RedeemOutcome(sync, preferredName) ==
    IF sync.threw
    THEN [s |-> sync.s, ok |-> FALSE, err |-> sync.err, ret |-> 0, audit |-> sync.audit]
    ELSE [s |-> sync.s, ok |-> TRUE, err |-> "", ret |-> getPlayerBP(sync.s, preferredName),
          audit |-> sync.audit \o <<BP_REDEEM_LOG_ENTRY>>]

\* A faulty variant: the amount is not required to be positive.
logBPRedeemAnyAmount(s, name, amount, now) ==
    IF name = "" THEN Failure(s, "Missing preferredName")
    ELSE IF Trim(name) = "" THEN Failure(s, "preferredName cannot be empty")
    ELSE IF getPlayerBP(s, Trim(name)) < amount THEN Failure(s, "Insufficient BP")
    ELSE RedeemOutcome(
             updateBPTotalFromSources(
                 AppendLog(ensureBPRedeemedLogSchema_(s), Trim(name), amount, now), now),
             Trim(name))

\* The outcome of logBPRedeemTransaction: { success, newBalance | error }.
logBPRedeemTransaction(s, name, amount, now) ==
    IF name = "" THEN Failure(s, "Missing preferredName")
    ELSE IF Trim(name) = "" THEN Failure(s, "preferredName cannot be empty")
    ELSE IF amount <= 0 THEN Failure(s, "bpAmount must be positive")
    ELSE IF getPlayerBP(s, Trim(name)) < amount THEN Failure(s, "Insufficient BP")
    ELSE RedeemOutcome(
             updateBPTotalFromSources(
                 AppendLog(ensureBPRedeemedLogSchema_(s), Trim(name), amount, now), now),
             Trim(name))

-----------------------------------------------------------------------------
(* part_000 with the audit sink down: logIntegrityAction throws *)

\* The reconciliation calls logIntegrityAction after its writes and outside any
\* try block: a run that reaches the call throws what the sink throws.
updateBPTotalSinkDown(s0, now) ==
    IF updateBPTotalFromSources(s0, now).threw
           \/ Len(updateBPTotalFromSources(s0, now).audit) = 0
    THEN updateBPTotalFromSources(s0, now)
    ELSE Threw(updateBPTotalFromSources(s0, now).s, "AUDIT_FAILED", <<>>)

\* The redemption reaches the sink inside its try block, in the reconciliation
\* or at its own BP_REDEEM_LOG call, after the record is appended: the catch
\* block returns { success: false, error }.
logBPRedeemSinkDown(s, name, amount, now) ==
    IF ~logBPRedeemTransaction(s, name, amount, now).ok
    THEN logBPRedeemTransaction(s, name, amount, now)
    ELSE [s |-> logBPRedeemTransaction(s, name, amount, now).s, ok |-> FALSE,
          err |-> "AUDIT_FAILED", ret |-> 0, audit |-> <<>>]

-----------------------------------------------------------------------------
(* part_000: balance queries and the manual adjustment *)

\* The first data row whose trimmed text at nameCol is the trimmed name, 0 when
\* there is none; a name column that was not found matches no row.  The name
\* cells of every sheet of the model hold texts or nothing.
FirstRowOf(data, nameCol, name) ==
    IF nameCol = 0 THEN 0
    ELSE IF \E i \in 2..Len(data) : Trim(CellText(Cell(data, i, nameCol))) = Trim(name)
    THEN CHOOSE i \in 2..Len(data) :
             /\ Trim(CellText(Cell(data, i, nameCol))) = Trim(name)
             /\ \A k \in 2..(i - 1) : Trim(CellText(Cell(data, k, nameCol))) # Trim(name)
    ELSE 0

\* getPlayerBP is a function of the project, so the wrapper returns its reading.
getBPBalance(s, preferredName) == getPlayerBP(s, preferredName)

\* lastUpdated: null is the empty cell.
defaults ==
    [current |-> 0, attendance |-> 0, flag |-> 0, dice |-> 0, historical |-> 0, redeemed |-> 0,
     lastUpdated |-> Blank]

\* The numeric fields of the breakdown read from row i (0: the defaults).
BreakdownOf(data, i) ==
    IF i = 0 THEN defaults
    ELSE [current |-> coerceNumber(Cell(data, i, colIdxOf(data[1], "BP_Current")), 0),
          attendance |->
              coerceNumber(Cell(data, i, colIdxOf(data[1], "Attendance Mission Points")), 0),
          flag |-> coerceNumber(Cell(data, i, colIdxOf(data[1], "Flag Mission Points")), 0),
          dice |-> coerceNumber(Cell(data, i, colIdxOf(data[1], "Dice Roll Points")), 0),
          historical |-> coerceNumber(Cell(data, i, colIdxOf(data[1], "BP_Historical")), 0),
          redeemed |-> coerceNumber(Cell(data, i, colIdxOf(data[1], "BP_Redeemed")), 0),
          lastUpdated |-> Cell(data, i, colIdxOf(data[1], "LastUpdated"))]

getPlayerBPBreakdown(s, preferredName) ==
    IF ~s["BP_Total"].exists \/ getLastRow(s["BP_Total"]) <= 1 THEN defaults
    ELSE BreakdownOf(getValues(s["BP_Total"]),
                     FirstRowOf(getValues(s["BP_Total"]),
                                colIdxOf(getValues(s["BP_Total"])[1], "PreferredName"),
                                preferredName))

BP_ADJUST_ENTRY == [action |-> "BP_ADJUST", status |-> "SUCCESS"]

\* A faulty variant: the adjustment replaces the stored total.
newHistReplaced(currentHist, adjustment) == adjustment

\* const newHist = currentHist + adjustment
newHist(currentHist, adjustment) == currentHist + adjustment

\* The three setValue calls in their order; a column that was not found makes
\* getRange throw, and the writes made before it stay.
AdjustWrites(sh, playerRow, histCol, currCol, updCol, hist, curr, now) ==
    IF histCol = 0 THEN sh
    ELSE IF currCol = 0 THEN setValue(sh, playerRow, histCol, Num(hist))
    ELSE SetIfCol(setValue(setValue(sh, playerRow, histCol, Num(hist)),
                           playerRow, currCol, Num(curr)),
                  playerRow, updCol, DateObj(now))

\* The outcome for the row found: { success, previousHistorical, newHistorical,
\* newCurrent }, or the failure the catch block returns.
AdjustAt(s, data, playerRow, histCol, redCol, currCol, updCol, adjustment, now) ==
    [s |-> [s EXCEPT !["BP_Total"] =
               AdjustWrites(s["BP_Total"], playerRow, histCol, currCol, updCol,
                            newHist(coerceNumber(Cell(data, playerRow, histCol), 0), adjustment),
                            CurrentOf(newHist(coerceNumber(Cell(data, playerRow, histCol), 0),
                                              adjustment),
                                      coerceNumber(Cell(data, playerRow, redCol), 0)),
                            now)],
     ok |-> histCol # 0 /\ currCol # 0 /\ updCol # 0,
     err |-> IF histCol # 0 /\ currCol # 0 /\ updCol # 0 THEN "" ELSE "exception",
     ret |-> [previousHistorical |-> coerceNumber(Cell(data, playerRow, histCol), 0),
              newHistorical |->
                  newHist(coerceNumber(Cell(data, playerRow, histCol), 0), adjustment),
              newCurrent |->
                  CurrentOf(newHist(coerceNumber(Cell(data, playerRow, histCol), 0),
                                    adjustment),
                            coerceNumber(Cell(data, playerRow, redCol), 0))],
     audit |-> IF histCol # 0 /\ currCol # 0 /\ updCol # 0 THEN <<BP_ADJUST_ENTRY>> ELSE <<>>]

\* A faulty variant: without a row for the player the first data row is adjusted.
AdjustInFirstRow(s, data, playerRow, adjustment, now) ==
    AdjustAt(s, data, Max2(playerRow, 2), colIdxOf(data[1], "BP_Historical"),
             colIdxOf(data[1], "BP_Redeemed"), colIdxOf(data[1], "BP_Current"),
             colIdxOf(data[1], "LastUpdated"), adjustment, now)

AdjustIn(s, data, playerRow, adjustment, now) ==
    IF playerRow = 0 THEN Failure(s, "Player not found in BP_Total")
    ELSE AdjustAt(s, data, playerRow, colIdxOf(data[1], "BP_Historical"),
                  colIdxOf(data[1], "BP_Redeemed"), colIdxOf(data[1], "BP_Current"),
                  colIdxOf(data[1], "LastUpdated"), adjustment, now)

adjustBPHistorical(s, preferredName, adjustment, now) ==
    IF ~s["BP_Total"].exists THEN Failure(s, "BP_Total not found")
    ELSE AdjustIn(s, getValues(s["BP_Total"]),
                  FirstRowOf(getValues(s["BP_Total"]),
                             colIdxOf(getValues(s["BP_Total"])[1], "PreferredName"),
                             preferredName),
                  adjustment, now)

-----------------------------------------------------------------------------
(* bpSyncServis.js: the delta-based sync of BP_Total *)

BP_CURRENT_CAP == 100

\* toSyncNumber_: '' and null are 0, Number(value) otherwise, NaN is 0.
toSyncNumber_(c) == IF c.k = "n" \/ c.k = "d" THEN c.n ELSE 0

\* mapSyncHeaders_(headerRow)[name]: the last column whose trimmed header is
\* the name, 0 when there is none (the code's undefined).
mapSyncHeaders_(headerRow, name) ==
    SetMax({j \in 1..Len(headerRow) : Trim(CellText(headerRow[j])) = name})

\* The map of buildPointsMap_ at a key: the points of the last row with that
\* trimmed key and points other than 0, 0 when there is none.
LastPoints(values, idxKey, idxPoints, key) ==
    IF idxKey = 0 \/ idxPoints = 0 THEN 0
    ELSE toSyncNumber_(Cell(values,
             SetMax({r \in 2..Len(values) :
                        /\ Trim(CellText(Cell(values, r, idxKey))) = key
                        /\ toSyncNumber_(Cell(values, r, idxPoints)) # 0}),
             idxPoints))

buildPointsMap_(s, sheetName, keyHeader, pointsHeader, key) ==
    IF ~s[sheetName].exists \/ Len(getValues(s[sheetName])) < 2 THEN 0
    ELSE LastPoints(s[sheetName].data,
                    mapSyncHeaders_(s[sheetName].data[1], keyHeader),
                    mapSyncHeaders_(s[sheetName].data[1], pointsHeader), key)

\* The columns of BP_Total the sync works on.
SyncColumns(bpHeader) ==
    [name |-> mapSyncHeaders_(bpHeader, "PreferredName"),
     current |-> mapSyncHeaders_(bpHeader, "Current_BP"),
     att |-> mapSyncHeaders_(bpHeader, "Attendance Mission Points"),
     flag |-> mapSyncHeaders_(bpHeader, "Flag Mission Points"),
     dice |-> mapSyncHeaders_(bpHeader, "Dice Roll Points"),
     hist |-> mapSyncHeaders_(bpHeader, "Historical_BP"),
     upd |-> mapSyncHeaders_(bpHeader, "LastUpdated")]

\* The three source lookups for one player.
SyncPoints(s, preferredName) ==
    [att |-> buildPointsMap_(s, "Attendance_Missions", "PreferredName",
                             "Attendance Mission Points", preferredName),
     flag |-> buildPointsMap_(s, "Flag_Missions", "PreferredName",
                              "Flag Mission Points", preferredName),
     dice |-> buildPointsMap_(s, "Dice Roll Points", "PreferredName", "Points",
                              preferredName)]

\* row[idx] for an index that may be undefined
RowCell(row, j) == IF j >= 1 /\ j <= Len(row) THEN row[j] ELSE Blank

newHistorical(newEarnedTotal, oldHistorical) ==
    IF newEarnedTotal > oldHistorical THEN newEarnedTotal
    ELSE IF newEarnedTotal < oldHistorical THEN newEarnedTotal
    ELSE oldHistorical

\* A faulty variant: a drop of the earned total is taken off as well.
deltaEarnedSigned(newEarnedTotal, oldHistorical) == newEarnedTotal - oldHistorical

deltaEarned(newEarnedTotal, oldHistorical) ==
    IF newEarnedTotal > oldHistorical THEN newEarnedTotal - oldHistorical ELSE 0

\* Current_BP: the positive delta is added, the sum clamped to [0, cap].
newCurrent(oldCurrent, delta) ==
    IF oldCurrent + delta < 0 THEN 0
    ELSE IF oldCurrent + delta > BP_CURRENT_CAP THEN BP_CURRENT_CAP
    ELSE oldCurrent + delta

\* A faulty variant: every row counts as changed.
rowChangedAlways(row, idx, v) == TRUE

\* rowChanged of refreshBP_Total
rowChangedFull(row, idx, v) ==
    \/ toSyncNumber_(RowCell(row, idx.att)) # v.att
    \/ toSyncNumber_(RowCell(row, idx.flag)) # v.flag
    \/ toSyncNumber_(RowCell(row, idx.dice)) # v.dice
    \/ toSyncNumber_(RowCell(row, idx.hist))
           # newHistorical(v.att + v.flag + v.dice, toSyncNumber_(RowCell(row, idx.hist)))
    \/ toSyncNumber_(RowCell(row, idx.current))
           # newCurrent(toSyncNumber_(RowCell(row, idx.current)),
                        deltaEarned(v.att + v.flag + v.dice,
                                    toSyncNumber_(RowCell(row, idx.hist))))

\* rowChanged of refreshBP_ForPlayer_: its dice test is oldDice !== oldDice.
rowChangedPlayer(row, idx, v) ==
    \/ toSyncNumber_(RowCell(row, idx.att)) # v.att
    \/ toSyncNumber_(RowCell(row, idx.flag)) # v.flag
    \/ toSyncNumber_(RowCell(row, idx.dice)) # toSyncNumber_(RowCell(row, idx.dice))
    \/ toSyncNumber_(RowCell(row, idx.hist))
           # newHistorical(v.att + v.flag + v.dice, toSyncNumber_(RowCell(row, idx.hist)))
    \/ toSyncNumber_(RowCell(row, idx.current))
           # newCurrent(toSyncNumber_(RowCell(row, idx.current)),
                        deltaEarned(v.att + v.flag + v.dice,
                                    toSyncNumber_(RowCell(row, idx.hist))))

\* The row as the sync leaves it in memory: the five values assigned, and
\* LastUpdated stamped when the row counts as changed.
SyncedRow(row, idx, v, now, changed) ==
    [j \in 1..Len(row) |->
        IF j = idx.upd /\ changed THEN DateObj(now)
        ELSE IF j = idx.current
        THEN Num(newCurrent(toSyncNumber_(RowCell(row, idx.current)),
                            deltaEarned(v.att + v.flag + v.dice,
                                        toSyncNumber_(RowCell(row, idx.hist)))))
        ELSE IF j = idx.hist
        THEN Num(newHistorical(v.att + v.flag + v.dice, toSyncNumber_(RowCell(row, idx.hist))))
        ELSE IF j = idx.dice THEN Num(v.dice)
        ELSE IF j = idx.flag THEN Num(v.flag)
        ELSE IF j = idx.att THEN Num(v.att)
        ELSE row[j]]

\* String(row[idxBP_PreferredName] || '').trim()
SyncRowName(row, idx) == Trim(CellText(RowCell(row, idx.name)))

FullRow(row, idx, v, now) == SyncedRow(row, idx, v, now, rowChangedFull(row, idx, v))

\* bpValues after the loop of refreshBP_Total.
SyncedValues(s, bpValues, idx, now) ==
    [r \in 1..Len(bpValues) |->
        IF r = 1 \/ SyncRowName(bpValues[r], idx) = "" THEN bpValues[r]
        ELSE FullRow(bpValues[r], idx, SyncPoints(s, SyncRowName(bpValues[r], idx)), now)]

\* The rows refreshBP_Total counts as changed.
ChangedRows(s, bpValues, idx) ==
    {r \in 2..Len(bpValues) :
        /\ SyncRowName(bpValues[r], idx) # ""
        /\ rowChangedFull(bpValues[r], idx, SyncPoints(s, SyncRowName(bpValues[r], idx)))}

BP_SYNC_PLAYER_ENTRY == [action |-> "BP_SYNC_PLAYER", status |-> "SUCCESS"]

\* The body is written back, and the sync logged, only if some row changed.
WriteBackAll(s, bpValues, idx, now) ==
    IF ChangedRows(s, bpValues, idx) = {} THEN Returned(s, 0, <<>>)
    ELSE Returned([s EXCEPT !["BP_Total"] =
                      setValues(s["BP_Total"], 2, 1, Tail(SyncedValues(s, bpValues, idx, now)))],
                  Cardinality(ChangedRows(s, bpValues, idx)), <<BP_SYNC_ENTRY>>)

refreshBP_Total(s, now) ==
    IF ~s["BP_Total"].exists THEN Threw(s, "BP_Total sheet not found", <<>>)
    ELSE IF Len(getValues(s["BP_Total"])) < 2 THEN Returned(s, 0, <<>>)
    ELSE WriteBackAll(s, getValues(s["BP_Total"]),
                      SyncColumns(getValues(s["BP_Total"])[1]), now)

\* The first data row that carries the name, 0 when there is none.
TargetRow(bpValues, idx, preferredName) ==
    IF \E r \in 2..Len(bpValues) : SyncRowName(bpValues[r], idx) = preferredName
    THEN CHOOSE r \in 2..Len(bpValues) :
             /\ SyncRowName(bpValues[r], idx) = preferredName
             /\ \A k \in 2..(r - 1) : SyncRowName(bpValues[k], idx) # preferredName
    ELSE 0

\* The one row is written back, and the sync logged, only if it changed.
WriteBackOne(s, target, row, idx, v, now) ==
    IF target = 0 THEN Returned(s, 0, <<>>)
    ELSE IF ~rowChangedPlayer(row, idx, v) THEN Returned(s, 0, <<>>)
    ELSE Returned([s EXCEPT !["BP_Total"] =
                      setValues(s["BP_Total"], target, 1,
                                <<SyncedRow(row, idx, v, now, TRUE)>>)],
                  1, <<BP_SYNC_PLAYER_ENTRY>>)

RefreshTarget(s, bpValues, idx, target, preferredName, now) ==
    WriteBackOne(s, target, IF target = 0 THEN <<>> ELSE bpValues[target], idx,
                 SyncPoints(s, preferredName), now)

RefreshOne(s, bpValues, idx, preferredName, now) ==
    RefreshTarget(s, bpValues, idx, TargetRow(bpValues, idx, preferredName),
                  preferredName, now)

\* A per-player refresh that recomputes every row (what the incremental path
\* must not do).
refreshEveryRow(s, name, now) == refreshBP_Total(s, now)

refreshBP_ForPlayer_(s, name, now) ==
    IF name = "" \/ Trim(name) = "" THEN Returned(s, 0, <<>>)
    ELSE IF ~s["BP_Total"].exists THEN Threw(s, "BP_Total sheet not found", <<>>)
    ELSE IF Len(getValues(s["BP_Total"])) < 2 THEN Returned(s, 0, <<>>)
    ELSE RefreshOne(s, getValues(s["BP_Total"]), SyncColumns(getValues(s["BP_Total"])[1]),
                    Trim(name), now)

SYNC_HEADERS ==
    <<"PreferredName", "Current_BP", "Attendance Mission Points", "Flag Mission Points",
      "Dice Roll Points", "Historical_BP", "LastUpdated">>

-----------------------------------------------------------------------------
(* bpAggregator.js: BP_Total rebuilt from the source sheets *)

AGG_HEADERS ==
    <<"preferred_name_id", "Current_BP", "Attendance Missions", "Flag Missions",
      "Dice Roll Points", "Historical_BP", "LastUpdated">>

MIN_BP == 0
MAX_BP == 100

\* normalizePlayerName_: String(name).trim()
normalizePlayerName_(c) ==
    IF c.k = "s" THEN Trim(c.s) ELSE IF c.k = "b" THEN "" ELSE "#value"

\* coerceToNumber_ hands the value to coerceNumber(value, 0).
coerceToNumber_(c) == coerceNumber(c, 0)

\* A Map is read through has(key) and get(key): the entry it holds for a key.
NoEntry == [has |-> FALSE, value |-> 0]

\* map.set(name, value) row after row: the last row with the name wins.
EntryOf(data, nameCol, valueCol, name) ==
    IF nameCol = 0 \/ valueCol = 0 \/ name = "" THEN NoEntry
    ELSE [has |-> \E r \in 2..Len(data) : normalizePlayerName_(Cell(data, r, nameCol)) = name,
          value |-> coerceToNumber_(Cell(data,
                        SetMax({r \in 2..Len(data) :
                                   normalizePlayerName_(Cell(data, r, nameCol)) = name}),
                        valueCol))]

buildNameToValueMap_(s, sheetName, nameHeader, valueHeader, name) ==
    IF ~s[sheetName].exists THEN NoEntry
    ELSE EntryOf(getValues(s[sheetName]),
                 indexOf(getValues(s[sheetName])[1], nameHeader),
                 indexOf(getValues(s[sheetName])[1], valueHeader), name)

\* The attendance column: 'Attendance Missions Points', else 'Attendance Missions'.
AttendanceCol(headers) ==
    IF indexOf(headers, "Attendance Missions Points") # 0
    THEN indexOf(headers, "Attendance Missions Points")
    ELSE indexOf(headers, "Attendance Missions")

buildAttendanceMap_(s, name) ==
    IF ~s["Attendance_Missions"].exists THEN NoEntry
    ELSE EntryOf(getValues(s["Attendance_Missions"]),
                 indexOf(getValues(s["Attendance_Missions"])[1], "PreferredName"),
                 AttendanceCol(getValues(s["Attendance_Missions"])[1]), name)

\* The four maps at one name.
AggMaps(s, name) ==
    [att |-> buildAttendanceMap_(s, name),
     flag |-> buildNameToValueMap_(s, "Flag_Missions", "PreferredName", "Flag Points", name),
     dice |-> buildNameToValueMap_(s, "Dice_Points", "PreferredName", "Points", name),
     red |-> buildNameToValueMap_(s, "Redeemed_BP", "PreferredName", "Total_Redeemed", name)]

\* getMapValue_(map, key)
getMapValue_(entry) == IF entry.has THEN entry.value ELSE 0

\* Array.from(set).sort() over the names of the model
NameOrder == <<"Ada", "Bob">>
SortedNames(S) == SelectSeq(NameOrder, LAMBDA n : n \in S)

\* The first data row whose column A carries the name, 0 when there is none.
AggFindRow(data, name) ==
    IF \E r \in 2..Len(data) : Trim(CellText(Cell(data, r, 1))) = name
    THEN CHOOSE r \in 2..Len(data) :
             /\ Trim(CellText(Cell(data, r, 1))) = name
             /\ \A k \in 2..(r - 1) : Trim(CellText(Cell(data, k, 1))) # name
    ELSE 0

getOrCreateBPTotalSheet_(s) ==
    IF s["BP_Total"].exists THEN s
    ELSE [s EXCEPT !["BP_Total"] = Sheet(<<StrRow(AGG_HEADERS)>>)]

\* A faulty variant: only the keys of the four maps are collected.
collectSourceNamesOnly_(s) ==
    {n \in Players :
        \/ AggMaps(s, n).att.has
        \/ AggMaps(s, n).flag.has
        \/ AggMaps(s, n).dice.has
        \/ AggMaps(s, n).red.has}

\* The names of column A of BP_Total and the keys of the four maps.
collectAllPlayerNames_(s) ==
    {n \in Players :
        \/ /\ getLastRow(s["BP_Total"]) > 1
           /\ \E r \in 2..Len(s["BP_Total"].data) :
                 normalizePlayerName_(Cell(s["BP_Total"].data, r, 1)) = n
        \/ AggMaps(s, n).att.has
        \/ AggMaps(s, n).flag.has
        \/ AggMaps(s, n).dice.has
        \/ AggMaps(s, n).red.has}

\* Current_BP of buildOutputData_: the raw total clamped to [MIN_BP, MAX_BP].
OutputCurrent(attendanceBP, flagBP, diceBP, redeemedBP) ==
    Max2(MIN_BP, Min2(MAX_BP, attendanceBP + flagBP + diceBP - redeemedBP))

OutputRowOf(playerName, attendanceBP, flagBP, diceBP, redeemedBP, timestamp) ==
    <<Str(playerName), Num(OutputCurrent(attendanceBP, flagBP, diceBP, redeemedBP)),
      Num(attendanceBP), Num(flagBP), Num(diceBP), Num(attendanceBP + flagBP + diceBP),
      DateObj(timestamp)>>

OutputRow(playerName, m, timestamp) ==
    OutputRowOf(playerName, getMapValue_(m.att), getMapValue_(m.flag), getMapValue_(m.dice),
                getMapValue_(m.red), timestamp)

OutputRows(s, sortedNames, timestamp) ==
    [k \in 1..Len(sortedNames) |->
        OutputRow(sortedNames[k], AggMaps(s, sortedNames[k]), timestamp)]

buildOutputData_(s, allPlayerNames, timestamp) ==
    <<StrRow(AGG_HEADERS)>> \o OutputRows(s, SortedNames(allPlayerNames), timestamp)

\* sheet.clear(), then the whole output written in one batch
writeBPTotalData_(s, data) == [s EXCEPT !["BP_Total"] = Sheet(data)]

BP_AGGREGATE_ENTRY == [action |-> "BP_AGGREGATE_REFRESH", status |-> "SUCCESS"]

RefreshAllIn(s, now) ==
    Returned(writeBPTotalData_(s, buildOutputData_(s, collectAllPlayerNames_(s), now)),
             Cardinality(collectAllPlayerNames_(s)), <<BP_AGGREGATE_ENTRY>>)

refreshAllBonusPoints(s, now) == RefreshAllIn(getOrCreateBPTotalSheet_(s), now)

\* The per-player balance without the upper clamp.
PlayerCurrentUncapped(attendanceBP, flagBP, diceBP, redeemedBP) ==
    Max2(MIN_BP, attendanceBP + flagBP + diceBP - redeemedBP)

\* Current_BP of the per-player refresh
PlayerCurrent(attendanceBP, flagBP, diceBP, redeemedBP) ==
    Max2(MIN_BP, Min2(MAX_BP, attendanceBP + flagBP + diceBP - redeemedBP))

\* The cells the per-player refresh writes into columns B to G.
PlayerCellsOf(attendanceBP, flagBP, diceBP, redeemedBP, lastUpdated) ==
    <<Num(PlayerCurrent(attendanceBP, flagBP, diceBP, redeemedBP)), Num(attendanceBP),
      Num(flagBP), Num(diceBP), Num(attendanceBP + flagBP + diceBP), DateObj(lastUpdated)>>

PlayerCells(m, lastUpdated) ==
    PlayerCellsOf(getMapValue_(m.att), getMapValue_(m.flag), getMapValue_(m.dice),
                  getMapValue_(m.red), lastUpdated)

\* A player without a row gets a new row, a player with a row has B to G updated.
WritePlayer(sh, playerRowIndex, normalizedName, cells) ==
    IF playerRowIndex = 0 THEN appendRow(sh, <<Str(normalizedName)>> \o cells)
    ELSE setValues(sh, playerRowIndex, 2, <<cells>>)

RefreshPlayerIn(s, normalizedName, now) ==
    Returned([s EXCEPT !["BP_Total"] =
                 WritePlayer(s["BP_Total"], AggFindRow(getValues(s["BP_Total"]), normalizedName),
                             normalizedName, PlayerCells(AggMaps(s, normalizedName), now))],
             0, <<>>)

refreshBonusPointsForPlayer_(s, playerName, now) ==
    IF playerName = "" \/ Trim(playerName) = "" THEN Returned(s, 0, <<>>)
    ELSE IF ~s["BP_Total"].exists THEN Returned(s, 0, <<>>)
    ELSE RefreshPlayerIn(s, Trim(playerName), now)

-----------------------------------------------------------------------------
(* bp_sync.js: the source extractors, the threshold sync and the deduction *)

\* A checkbox cell.
Bool(x) == [k |-> "t", n |-> IF x THEN 1 ELSE 0, s |-> ""]

\* !value: an empty cell, '', 0 and false are falsy.
Falsy(c) ==
    c.k = "b" \/ (c.k = "s" /\ c.s = "") \/ (c.k = "n" /\ c.n = 0) \/ c = Bool(FALSE)

\* String(headers[j]).toLowerCase() on the header texts the model uses.
LowerHeader(c) ==
    IF c = Str("PreferredName") THEN "preferredname"
    ELSE IF c = Str("LastUpdated") THEN "lastupdated"
    ELSE IF c.k = "s" THEN c.s
    ELSE "#value"

\* The loop over pointsColNames: the column of the first listed name that
\* headers.indexOf finds, 0 when none is found.
RECURSIVE FirstIndexOf(_, _)
FirstIndexOf(headers, names) ==
    IF Len(names) = 0 THEN 0
    ELSE IF indexOf(headers, names[1]) # 0 THEN indexOf(headers, names[1])
    ELSE FirstIndexOf(headers, Tail(names))

\* result[playerName] is assigned row by row: the last row of a name stays.
LastRowOf(data, nameCol, name) ==
    SetMax({i \in 2..Len(data) : Cell(data, i, nameCol) = Str(name) /\ name # ""})

\* A faulty variant: every checked mission counts one point.
FlagValueAlwaysOne(missionName) == 1

\* values[missionName] || 1
getFlagMissionValue_(missionName) ==
    IF missionName \in {Str("Cosmic_Selfie"), Str("App_Explorer")} THEN 1
    ELSE IF missionName \in {Str("Review_Writer"), Str("Social_Media_Star"),
                             Str("Precon_Pioneer")} THEN 2
    ELSE IF missionName \in {Str("Cosmic_Merchant"), Str("Rogue_Planet")} THEN 3
    ELSE IF missionName \in {Str("Gravitational_Pull"), Str("Quantum_Collector")} THEN 5
    ELSE 1

\* One pass of the inner loop of getFlagMissionPoints_: what column j adds.
FlagCellPoints(header, val) ==
    IF LowerHeader(header) \in {"preferredname", "lastupdated"} THEN 0
    ELSE IF val.k = "n" THEN val.n
    ELSE IF val = Bool(TRUE) THEN getFlagMissionValue_(header)
    ELSE 0

FlagRowSum(headers, row) ==
    SumSeq([j \in 1..Len(headers) |-> FlagCellPoints(headers[j], row[j])])

FlagPointsAt(data, i, pointsCol) ==
    IF i = 0 THEN 0
    ELSE IF pointsCol # 0 THEN coerceNumber(Cell(data, i, pointsCol), 0)
    ELSE FlagRowSum(data[1], data[i])

FLAG_POINTS_COLS == <<"Flag Mission Points", "Flag Points", "Points", "Total Points">>

\* flagPoints[name] || 0 for the map getFlagMissionPoints_() returns.
getFlagMissionPoints_(s, name) ==
    IF ~s["Flag_Missions"].exists \/ getLastRow(s["Flag_Missions"]) <= 1 THEN 0
    ELSE IF indexOf(getValues(s["Flag_Missions"])[1], "PreferredName") = 0 THEN 0
    ELSE FlagPointsAt(getValues(s["Flag_Missions"]),
                      LastRowOf(getValues(s["Flag_Missions"]),
                                indexOf(getValues(s["Flag_Missions"])[1], "PreferredName"),
                                name),
                      FirstIndexOf(getValues(s["Flag_Missions"])[1], FLAG_POINTS_COLS))

\* One pass of the inner loop of getAttendanceMissionPoints_: what column j adds.
AttendanceCellPoints(header, val) ==
    IF LowerHeader(header) \in {"preferredname", "lastupdated"} THEN 0
    ELSE IF val.k = "n" THEN val.n
    ELSE IF val = Bool(TRUE) THEN 1
    ELSE 0

AttendanceRowSum(headers, row) ==
    SumSeq([j \in 1..Len(headers) |-> AttendanceCellPoints(headers[j], row[j])])

AttendancePointsAt(data, i, pointsCol) ==
    IF i = 0 THEN 0
    ELSE IF pointsCol # 0 THEN coerceNumber(Cell(data, i, pointsCol), 0)
    ELSE AttendanceRowSum(data[1], data[i])

ATTENDANCE_POINTS_COLS ==
    <<"Attendance Mission Points", "Attendance Points", "Points", "Total Points",
      "Total Events Attended">>

\* attendancePoints[name] || 0 for the map getAttendanceMissionPoints_() returns.
getAttendanceMissionPoints_(s, name) ==
    IF ~s["Attendance_Missions"].exists \/ getLastRow(s["Attendance_Missions"]) <= 1 THEN 0
    ELSE IF indexOf(getValues(s["Attendance_Missions"])[1], "PreferredName") = 0 THEN 0
    ELSE AttendancePointsAt(getValues(s["Attendance_Missions"]),
                            LastRowOf(getValues(s["Attendance_Missions"]),
                                      indexOf(getValues(s["Attendance_Missions"])[1],
                                              "PreferredName"),
                                      name),
                            FirstIndexOf(getValues(s["Attendance_Missions"])[1],
                                         ATTENDANCE_POINTS_COLS))

DICE_POINTS_COLS == <<"Dice Roll Points", "Points", "DicePoints", "Total">>

\* Without a points column every player of the dice sheet has 0.
DicePointsAt(data, i, pointsCol) ==
    IF i = 0 \/ pointsCol = 0 THEN 0 ELSE coerceNumber(Cell(data, i, pointsCol), 0)

DicePointsIn(sh, name) ==
    IF ~sh.exists \/ getLastRow(sh) <= 1 THEN 0
    ELSE IF indexOf(getValues(sh)[1], "PreferredName") = 0 THEN 0
    ELSE DicePointsAt(getValues(sh),
                      LastRowOf(getValues(sh), indexOf(getValues(sh)[1], "PreferredName"),
                                name),
                      FirstIndexOf(getValues(sh)[1], DICE_POINTS_COLS))

\* dicePoints[name] || 0 for the map getDiceRollPoints_() returns: Dice_Points
\* when that sheet exists, Dice Roll Points otherwise.
getDiceRollPoints_(s, name) ==
    IF s["Dice_Points"].exists THEN DicePointsIn(s["Dice_Points"], name)
    ELSE DicePointsIn(s["Dice Roll Points"], name)

\* mapColumns_(headers, [...]): the column of each name, 0 for the code's
\* undefined.
mapColumns_(headers) ==
    [name |-> indexOf(headers, "PreferredName"),
     current |-> indexOf(headers, "Current_BP"),
     att |-> indexOf(headers, "Attendance Missions"),
     flag |-> indexOf(headers, "Flag Missions"),
     dice |-> indexOf(headers, "Dice Roll Points"),
     hist |-> indexOf(headers, "Historical_BP"),
     updated |-> indexOf(headers, "LastUpdated")]

\* The three source maps at a player's name.
SourcePointsOf(s, name) ==
    [att |-> getAttendanceMissionPoints_(s, name),
     flag |-> getFlagMissionPoints_(s, name),
     dice |-> getDiceRollPoints_(s, name)]

\* if (colMap[...] !== undefined) bpSheet.getRange(rowNum, col + 1).setValue(v)
SetIfMapped(sh, rowNum, col, v) == IF col = 0 THEN sh ELSE setValue(sh, rowNum, col, v)

\* const newCurrentBP = Math.min(totalFromSources, bpGlobalCap)
newCurrentBP(v) == Min2(v.att + v.flag + v.dice, BP_Global_Cap)

\* Math.max(currentHistorical, totalFromSources)
newHistoricalOf(row, colMap, v) ==
    Max2(coerceNumber(Cell(<<row>>, 1, colMap.hist), 0), v.att + v.flag + v.dice)

\* The test that decides whether a row is written.
ThresholdChanged(row, colMap, v) ==
    \/ newCurrentBP(v) # coerceNumber(Cell(<<row>>, 1, colMap.current), 0)
    \/ v.att # coerceNumber(Cell(<<row>>, 1, colMap.att), 0)
    \/ v.flag # coerceNumber(Cell(<<row>>, 1, colMap.flag), 0)
    \/ v.dice # coerceNumber(Cell(<<row>>, 1, colMap.dice), 0)

\* The six cells of a changed row.
ThresholdWrite(sh, rowNum, row, colMap, v, now) ==
    SetIfMapped(
      SetIfMapped(
        SetIfMapped(
          SetIfMapped(
            SetIfMapped(
              SetIfMapped(sh, rowNum, colMap.att, Num(v.att)),
              rowNum, colMap.flag, Num(v.flag)),
            rowNum, colMap.dice, Num(v.dice)),
          rowNum, colMap.current, Num(newCurrentBP(v))),
        rowNum, colMap.hist, Num(newHistoricalOf(row, colMap, v))),
      rowNum, colMap.updated, DateObj(now))

\* The loop over the rows read into bpData, from row i on: the sheet it
\* leaves and the number of rows written.
RECURSIVE ThresholdRows(_, _, _, _, _, _, _)
ThresholdRows(s, sh, bpData, colMap, i, updatedCount, now) ==
    IF i > Len(bpData) THEN [sh |-> sh, updatedCount |-> updatedCount]
    ELSE IF Falsy(Cell(bpData, i, colMap.name))
    THEN ThresholdRows(s, sh, bpData, colMap, i + 1, updatedCount, now)
    ELSE IF ~ThresholdChanged(bpData[i], colMap,
                              SourcePointsOf(s, CellText(Cell(bpData, i, colMap.name))))
    THEN ThresholdRows(s, sh, bpData, colMap, i + 1, updatedCount, now)
    ELSE ThresholdRows(s,
             ThresholdWrite(sh, i, bpData[i], colMap,
                            SourcePointsOf(s, CellText(Cell(bpData, i, colMap.name))), now),
             bpData, colMap, i + 1, updatedCount + 1, now)

ThresholdOutcome(s1, r) ==
    Returned([s1 EXCEPT !["BP_Total"] = r.sh], r.updatedCount,
             IF r.updatedCount > 0 THEN <<BP_SYNC_ENTRY>> ELSE <<>>)

\* updateBPTotalFromSources() of bp_sync.js (part_000 defines a function of
\* the same name; this is the one that deductBP is deployed with).
bp_sync_updateBPTotalFromSources(s, now) ==
    IF Len(getValues(ensureBPTotalSchemaEnhanced_(s)["BP_Total"])) <= 1
    THEN Returned(ensureBPTotalSchemaEnhanced_(s), 0, <<>>)
    ELSE ThresholdOutcome(ensureBPTotalSchemaEnhanced_(s),
             ThresholdRows(s, ensureBPTotalSchemaEnhanced_(s)["BP_Total"],
                           getValues(ensureBPTotalSchemaEnhanced_(s)["BP_Total"]),
                           mapColumns_(getValues(ensureBPTotalSchemaEnhanced_(s)["BP_Total"])[1]),
                           2, 0, now))

\* { success, remaining }
DeductResult(s, success, remaining) ==
    [s |-> s, threw |-> FALSE, success |-> success, err |-> "", ret |-> remaining,
     audit |-> <<>>]

\* The row is found: the balance is compared with the amount and written.
DeductAt(s, data, i, bpCol, lastUpdatedCol, amount, now) ==
    IF coerceNumber(Cell(data, i, bpCol), 0) < amount
    THEN DeductResult(s, FALSE, coerceNumber(Cell(data, i, bpCol), 0))
    ELSE DeductResult(
           [s EXCEPT !["BP_Total"] =
               SetIfMapped(setValue(s["BP_Total"], i, bpCol,
                                    Num(coerceNumber(Cell(data, i, bpCol), 0) - amount)),
                           i, lastUpdatedCol, DateObj(now))],
           TRUE, coerceNumber(Cell(data, i, bpCol), 0) - amount)

DeductIn(s, data, nameCol, bpCol, preferredName, amount, now) ==
    IF nameCol = 0 \/ bpCol = 0 THEN DeductResult(s, FALSE, 0)
    ELSE IF FindRow(data, nameCol, preferredName) = 0 THEN DeductResult(s, FALSE, 0)
    ELSE DeductAt(s, data, FindRow(data, nameCol, preferredName), bpCol,
                  indexOf(data[1], "LastUpdated"), amount, now)

deductBP(s, preferredName, amount, now) ==
    IF ~s["BP_Total"].exists THEN DeductResult(s, FALSE, 0)
    ELSE DeductIn(s, getValues(s["BP_Total"]),
                  indexOf(getValues(s["BP_Total"])[1], "PreferredName"),
                  indexOf(getValues(s["BP_Total"])[1], "Current_BP"),
                  preferredName, amount, now)

-----------------------------------------------------------------------------
(* The ledger engine as a state machine: the source sheets are edited by   *)
(* their owners, and the entry points of part_000 and part_001 run one at  *)
(* a time against the spreadsheet.                                         *)

SheetNames ==
    {"BP_Total", "BP_Redeemed_Log", "PreferredNames", "Key_Tracker", "Attendance_Missions",
     "Flag_Missions", "Dice Roll Points", "Dice_Points", "Redeemed_BP", "Prestige_Overflow"}

SourceTables == {"Attendance_Missions", "Flag_Missions", "Dice Roll Points", "Dice_Points"}

\* The header row a source sheet is created with.
SourceHeader(t) ==
    IF t = "Attendance_Missions" THEN <<"PreferredName", "Attendance Mission Points">>
    ELSE IF t = "Flag_Missions" THEN <<"PreferredName", "Flag Mission Points">>
    ELSE <<"PreferredName", "Points">>

\* The names and the point values an edit may type into a source sheet.
TypedNames == {"Ada ", "Bob"}

SourceValues(t) ==
    IF t = "Attendance_Missions" THEN {10, 150}
    ELSE IF t = "Flag_Missions" THEN {5}
    ELSE IF t = "Dice Roll Points" THEN {3}
    ELSE IF t = "Dice_Points" THEN {4}
    ELSE {5}

RedeemAmounts == {5, 20}

\* The payloads of the redemption requests: the players with a positive
\* amount, a missing and a blank name, and amounts that are zero, negative and
\* not a number.
RedeemPayloads ==
    {<<p, Num(a)>> : p \in Players, a \in RedeemAmounts}
        \cup {<<"", Num(5)>>, <<" ", Num(5)>>}
        \cup {<<"Ada", Num(0)>>, <<"Ada", Num(0 - 5)>>, <<"Ada", Str("abc")>>}
AwardAmounts == {10}

RosterSheet(names) ==
    Sheet(<<<<Str("PreferredName")>>>> \o [i \in 1..Len(names) |-> <<Str(names[i])>>])

\* The rosters the runs start from: (PreferredNames, Key_Tracker).
Rosters ==
    { <<RosterSheet(<<"Ada", "Bob">>), NoSheet>>,
      <<RosterSheet(<<>>), NoSheet>>,
      <<NoSheet, RosterSheet(<<"Ada">>)>>,
      <<NoSheet, NoSheet>> }

NoOp == [op |-> "init", name |-> "", amount |-> 0, ok |-> TRUE, err |-> "", ret |-> 0,
         prevOp |-> "none", prevOk |-> TRUE]

Done(op, name, amount, ok, err, ret) ==
    [op |-> op, name |-> name, amount |-> amount, ok |-> ok, err |-> err, ret |-> ret,
     prevOp |-> last.op, prevOk |-> last.ok]

Init ==
    /\ \E r \in Rosters :
          ss = [n \in SheetNames |->
                   IF n = "PreferredNames" THEN r[1]
                   ELSE IF n = "Key_Tracker" THEN r[2]
                   ELSE NoSheet]
    /\ clock = 1
    /\ calls = <<>>
    /\ audit = <<>>
    /\ last = NoOp

\* The call returned: the spreadsheet, the audit trail and the record of the call.
Finish(op, name, amount, r, ok) ==
    /\ ss' = r.s
    /\ audit' = audit \o r.audit
    /\ last' = Done(op, name, amount, ok, r.err, r.ret)
    /\ clock' = clock + 1
    /\ calls' = calls

\* Somebody types a name and a point value into data row i of a source sheet.
EditSource(t, i, name, v) ==
    /\ clock <= MaxClock
    /\ i <= IF ss[t].exists THEN getLastRow(ss[t]) ELSE 1
    /\ ss' = [ss EXCEPT ![t] =
                 setValues(IF ss[t].exists THEN ss[t] ELSE Sheet(<<StrRow(SourceHeader(t))>>),
                           i + 1, 1, <<<<Str(name), Num(v)>>>>)]
    /\ clock' = clock + 1
    /\ calls' = calls
    /\ audit' = audit
    /\ last' = Done("edit", name, v, TRUE, "", 0)

UpdateBPTotal ==
    /\ clock <= MaxClock
    /\ Finish("update", "", 0, updateBPTotalFromSources(ss, clock),
              ~updateBPTotalFromSources(ss, clock).threw)

\* const bpAmount = coerceNumber(payload.bpAmount, 0)
coercedAmount(bpAmount) == coerceNumber(bpAmount, 0)

\* A redemption is requested with a payload { preferredName, bpAmount }; a
\* payload without a name carries the name ''.
RedeemBP(name, bpAmount) ==
    /\ clock <= MaxClock
    /\ Finish("redeem", name, coercedAmount(bpAmount),
              logBPRedeemTransaction(ss, name, coercedAmount(bpAmount), clock),
              logBPRedeemTransaction(ss, name, coercedAmount(bpAmount), clock).ok)

AwardBP(name, amount) ==
    /\ clock <= MaxClock
    /\ Finish("award", name, amount, awardBP(ss, name, amount, clock),
              ~awardBP(ss, name, amount, clock).threw)

Next ==
    \/ \E t \in SourceTables, i \in 1..MaxSourceRows, name \in TypedNames :
          \E v \in SourceValues(t) : EditSource(t, i, name, v)
    \/ UpdateBPTotal
    \/ \E payload \in RedeemPayloads : RedeemBP(payload[1], payload[2])
    \/ \E name \in Players, amount \in AwardAmounts : AwardBP(name, amount)

Spec == Init /\ [][Next]_vars

-----------------------------------------------------------------------------
(* The delta-based sync (bpSyncServis.js) as a state machine: BP_Total     *)
(* holds rows entered before any sync ran, the source sheets are edited,   *)
(* and the full and the single-player refresh run one at a time.           *)

SyncSourceTables == {"Attendance_Missions", "Flag_Missions", "Dice Roll Points"}

\* The balances a row may hold before the first sync.
StoredCurrent == {0, 98}
StoredHistorical == {0, 3}

\* A BP_Total row that holds a name and balances, its category cells blank.
StoredRow(name, current, historical) ==
    <<Str(name), Num(current), Blank, Blank, Blank, Num(historical), Blank>>

InitSync ==
    /\ \E c \in StoredCurrent, h \in StoredHistorical :
          ss = [n \in SheetNames |->
                   IF n = "BP_Total"
                   THEN Sheet(<<StrRow(SYNC_HEADERS), StoredRow("Ada", c, h),
                                StoredRow("Bob", 0, 0)>>)
                   ELSE NoSheet]
    /\ clock = 1
    /\ calls = <<>>
    /\ audit = <<>>
    /\ last = NoOp

RefreshTotal ==
    /\ clock <= MaxClock
    /\ Finish("refreshAll", "", 0, refreshBP_Total(ss, clock),
              ~refreshBP_Total(ss, clock).threw)

RefreshPlayer(name) ==
    /\ clock <= MaxClock
    /\ Finish("refreshOne", name, 0, refreshBP_ForPlayer_(ss, name, clock),
              ~refreshBP_ForPlayer_(ss, name, clock).threw)

NextSync ==
    \/ \E t \in SyncSourceTables, i \in 1..MaxSourceRows, name \in TypedNames :
          \E v \in SourceValues(t) : EditSource(t, i, name, v)
    \/ RefreshTotal
    \/ \E name \in TypedNames : RefreshPlayer(name)

SpecSync == InitSync /\ [][NextSync]_vars

-----------------------------------------------------------------------------
(* The aggregator (bpAggregator.js) as a state machine: its four source    *)
(* sheets are edited, and the full and the per-player refresh run one at a *)
(* time.  BP_Total starts missing, freshly created, or with a stale row.   *)

AggSourceTables == {"Attendance_Missions", "Flag_Missions", "Dice_Points", "Redeemed_BP"}

\* The header row the aggregator reads a source sheet by.
AggSourceHeader(t, attendanceHeader) ==
    IF t = "Attendance_Missions" THEN <<"PreferredName", attendanceHeader>>
    ELSE IF t = "Flag_Missions" THEN <<"PreferredName", "Flag Points">>
    ELSE IF t = "Dice_Points" THEN <<"PreferredName", "Points">>
    ELSE <<"PreferredName", "Total_Redeemed">>

AttendanceHeaders == {"Attendance Missions Points", "Attendance Missions"}

StaleRow == <<Str("Ada"), Num(7), Num(7), Num(0), Num(0), Num(7), DateObj(0)>>

TotalsAtStart ==
    {NoSheet, Sheet(<<StrRow(AGG_HEADERS)>>), Sheet(<<StrRow(AGG_HEADERS), StaleRow>>)}

InitAgg ==
    /\ \E total \in TotalsAtStart, a \in AttendanceHeaders :
          ss = [n \in SheetNames |->
                   IF n = "BP_Total" THEN total
                   ELSE IF n \in AggSourceTables THEN Sheet(<<StrRow(AggSourceHeader(n, a))>>)
                   ELSE NoSheet]
    /\ clock = 1
    /\ calls = <<>>
    /\ audit = <<>>
    /\ last = NoOp

RefreshAll ==
    /\ clock <= MaxClock
    /\ Finish("aggAll", "", 0, refreshAllBonusPoints(ss, clock), TRUE)

RefreshBonusPlayer(name) ==
    /\ clock <= MaxClock
    /\ Finish("aggOne", name, 0, refreshBonusPointsForPlayer_(ss, name, clock), TRUE)

NextAgg ==
    \/ \E t \in AggSourceTables, i \in 1..MaxSourceRows, name \in TypedNames :
          \E v \in SourceValues(t) : EditSource(t, i, name, v)
    \/ RefreshAll
    \/ \E name \in TypedNames : RefreshBonusPlayer(name)

SpecAgg == InitAgg /\ [][NextAgg]_vars

-----------------------------------------------------------------------------
(* Source aggregation of the ledger engine (part_000) as a state machine:  *)
(* the attendance sheet carries one of several header rows, rows of any    *)
(* content are typed into it, and the full reconciliation runs.            *)

\* Header rows of Attendance_Missions: the canonical one, one with the points
\* synonym 'Attendance Points', one without a points column and one without
\* a name column.
AttendanceHeaderRows ==
    { <<"PreferredName", "Attendance Mission Points">>,
      <<"PreferredName", "Attendance Points">>,
      <<"PreferredName", "Score">>,
      <<"Member", "Attendance Mission Points">> }

\* The rows typed into the sheet: a name (padded or blank) and a points cell
\* that holds a number, a negative number, a text or nothing.
TypedRows ==
    {<<Str(n), v>> : n \in {"Ada ", " "}, v \in {Num(10), Num(0 - 5), Str("abc"), Blank}}

InitSrc ==
    /\ \E h \in AttendanceHeaderRows :
          ss = [n \in SheetNames |->
                   IF n = "PreferredNames" THEN RosterSheet(<<"Ada", "Bob">>)
                   ELSE IF n = "Attendance_Missions" THEN Sheet(<<StrRow(h)>>)
                   ELSE NoSheet]
    /\ clock = 1
    /\ calls = <<>>
    /\ audit = <<>>
    /\ last = NoOp

\* Somebody types a row into data row i of the attendance sheet.
TypeRow(i, row) ==
    /\ clock <= MaxClock
    /\ i <= getLastRow(ss["Attendance_Missions"])
    /\ ss' = [ss EXCEPT !["Attendance_Missions"] = setValues(@, i + 1, 1, <<row>>)]
    /\ clock' = clock + 1
    /\ calls' = calls
    /\ audit' = audit
    /\ last' = Done("type", row[1].s, row[2].n, TRUE, "", 0)

NextSrc ==
    \/ \E i \in 1..MaxSourceRows, row \in TypedRows : TypeRow(i, row)
    \/ UpdateBPTotal

SpecSrc == InitSrc /\ [][NextSrc]_vars

-----------------------------------------------------------------------------
(* Schema enforcement (part_000) on its own: BP_Total starts as any of a   *)
(* set of sheets, legacy ones included, and ensureBPTotalSchema_ runs.     *)

\* Header texts of legacy sheets: canonical ones, synonyms, and a column the
\* schema does not know.
LegacyHeaderTexts == {"PreferredName", "Player", "BP_Current", "BP", "Notes"}

MaxLegacyCols == 3

\* A data row whose cell in column j holds 10 * j.
DataRow(width) == [j \in 1..width |-> Num(10 * j)]

\* The sheets BP_Total may be before the schema is ensured: missing, empty,
\* a header row of two to MaxLegacyCols legacy texts with one data row, and
\* the canonical header row followed by a column of notes.
TotalsBeforeSchema ==
    {NoSheet, Sheet(<<>>),
     Sheet(<<StrRow(BP_TOTAL_HEADERS \o <<"Notes">>), DataRow(9)>>)}
        \cup {Sheet(<<StrRow(h), DataRow(Len(h))>>) :
                 h \in UNION {[1..w -> LegacyHeaderTexts] : w \in 2..MaxLegacyCols}}

InitSchema ==
    /\ \E total \in TotalsBeforeSchema :
          ss = [n \in SheetNames |-> IF n = "BP_Total" THEN total ELSE NoSheet]
    /\ clock = 1
    /\ calls = <<>>
    /\ audit = <<>>
    /\ last = NoOp

EnsureSchema ==
    /\ clock <= MaxClock
    /\ ss' = ensureBPTotalSchema_(ss)
    /\ clock' = clock + 1
    /\ calls' = calls
    /\ audit' = audit
    /\ last' = Done("ensure", "", 0, TRUE, "", 0)

NextSchema == EnsureSchema

SpecSchema == InitSchema /\ [][NextSchema]_vars

-----------------------------------------------------------------------------
(* The query and adjustment facade (part_000) as a state machine: BP_Total *)
(* is missing or was reconciled while the roster listed Ada and Bob, Bob   *)
(* may since have been taken off the roster, and the attendance sheet is   *)
(* edited while balances are queried, adjusted and reconciled.             *)

AdjustNames == {"Ada", "Bob", "Cy"}
Adjustments == {5, 0 - 20}
StartPoints == {10, 150}
LoweredPoints == {5}

\* A spreadsheet with the roster Ada and Bob, attendance points for Ada and
\* one logged redemption of 5 by Ada.
LedgerWith(points) ==
    [n \in SheetNames |->
        IF n = "PreferredNames" THEN RosterSheet(<<"Ada", "Bob">>)
        ELSE IF n = "Attendance_Missions"
        THEN Sheet(<<StrRow(SourceHeader(n)), <<Str("Ada"), Num(points)>>>>)
        ELSE IF n = "BP_Redeemed_Log"
        THEN Sheet(<<StrRow(BP_REDEEMED_LOG_HEADERS),
                     <<DateObj(0), Str("Ada"), Num(5), Blank, Blank, Blank, Str("staff"),
                       Num(0)>>>>)
        ELSE NoSheet]

InitAdj ==
    /\ \E points \in StartPoints, reconciled \in BOOLEAN :
          \E roster \in {<<"Ada", "Bob">>, <<"Ada">>} :
             ss = [(IF reconciled THEN updateBPTotalFromSources(LedgerWith(points), 0).s
                    ELSE LedgerWith(points))
                      EXCEPT !["PreferredNames"] = RosterSheet(roster)]
    /\ clock = 1
    /\ calls = <<>>
    /\ audit = <<>>
    /\ last = NoOp

AdjustBP(name, adjustment) ==
    /\ clock <= MaxClock
    /\ Finish("adjust", name, adjustment, adjustBPHistorical(ss, name, adjustment, clock),
              adjustBPHistorical(ss, name, adjustment, clock).ok)

\* A balance query: nothing is written, the balance read is what it returns.
QueryBP(name) ==
    /\ clock <= MaxClock
    /\ ss' = ss
    /\ audit' = audit
    /\ clock' = clock + 1
    /\ calls' = calls
    /\ last' = Done("query", name, 0, TRUE, "", getBPBalance(ss, name))

NextAdj ==
    \/ \E i \in 1..MaxSourceRows, v \in LoweredPoints :
          EditSource("Attendance_Missions", i, "Ada ", v)
    \/ UpdateBPTotal
    \/ \E name \in AdjustNames, adjustment \in Adjustments : AdjustBP(name, adjustment)
    \/ \E name \in AdjustNames : QueryBP(name)

SpecAdj == InitAdj /\ [][NextAdj]_vars

-----------------------------------------------------------------------------
(* The award service (part_001) as a state machine: no player has a row,   *)
(* BP_Total is missing or holds its header row only, and points are        *)
(* awarded and redeemed as store credit one call at a time.                *)

EarnedAmounts == {0, 60, 150}
MemoAmounts == {20, 100}

InitAward ==
    /\ \E total \in {NoSheet, Sheet(<<StrRow(ENHANCED_HEADERS)>>)} :
          ss = [n \in SheetNames |-> IF n = "BP_Total" THEN total ELSE NoSheet]
    /\ clock = 1
    /\ calls = <<>>
    /\ audit = <<>>
    /\ last = NoOp

RedeemMemo(name, amount) ==
    /\ clock <= MaxClock
    /\ Finish("memo", name, amount, redeemBP_StoreCreditMemo(ss, name, amount, clock),
              ~redeemBP_StoreCreditMemo(ss, name, amount, clock).threw)

NextAward ==
    \/ \E name \in Players, amount \in EarnedAmounts : AwardBP(name, amount)
    \/ \E name \in Players, amount \in MemoAmounts : RedeemMemo(name, amount)

SpecAward == InitAward /\ [][NextAward]_vars

-----------------------------------------------------------------------------
(* The engines that write BP_Total, run one at a time on one spreadsheet:  *)
(* the full reconciliation, the redemption and the adjustment of part_000  *)
(* the full and the per-player refresh of bpAggregator.js, and the award   *)
(* of part_001.  BP_Total starts as in the facade's runs: Bob may have a   *)
(* row without being on the roster or in any source sheet.                 *)

NextRows ==
    \/ UpdateBPTotal
    \/ \E name \in Players : RedeemBP(name, Num(5))
    \/ \E name \in Players, adjustment \in Adjustments : AdjustBP(name, adjustment)
    \/ RefreshAll
    \/ \E name \in TypedNames : RefreshBonusPlayer(name)
    \/ \E name \in Players, amount \in AwardAmounts : AwardBP(name, amount)

SpecRows == InitAdj /\ [][NextRows]_vars

-----------------------------------------------------------------------------
(* The roster as it is edited (part_000): names are typed into column A of *)
(* PreferredNames, exact, padded or repeated, and the full reconciliation  *)
(* runs.  BP_Total does not exist at the start.                            *)

MaxRosterRows == 2

RosterTexts == {"Ada", "Ada ", "Bob"}

InitRoster ==
    /\ \E names \in {<<>>, <<"Ada">>} :
          ss = [n \in SheetNames |->
                   IF n = "PreferredNames" THEN RosterSheet(names) ELSE NoSheet]
    /\ clock = 1
    /\ calls = <<>>
    /\ audit = <<>>
    /\ last = NoOp

\* Somebody types a name into data row i of the roster.
EditRoster(i, name) ==
    /\ clock <= MaxClock
    /\ i <= getLastRow(ss["PreferredNames"])
    /\ ss' = [ss EXCEPT !["PreferredNames"] = setValues(@, i + 1, 1, <<<<Str(name)>>>>)]
    /\ clock' = clock + 1
    /\ calls' = calls
    /\ audit' = audit
    /\ last' = Done("roster", name, 0, TRUE, "", 0)

NextRoster ==
    \/ \E i \in 1..MaxRosterRows, name \in RosterTexts : EditRoster(i, name)
    \/ UpdateBPTotal

SpecRoster == InitRoster /\ [][NextRoster]_vars

-----------------------------------------------------------------------------
(* The ledger engine with an audit sink that may be down: a call finds the *)
(* sink working or finds logIntegrityAction throwing.  Awards are made     *)
(* while the sink works.                                                   *)

UpdateSinkDown ==
    /\ clock <= MaxClock
    /\ Finish("updateSinkDown", "", 0, updateBPTotalSinkDown(ss, clock),
              ~updateBPTotalSinkDown(ss, clock).threw)

RedeemSinkDown(name, bpAmount) ==
    /\ clock <= MaxClock
    /\ Finish("redeemSinkDown", name, coercedAmount(bpAmount),
              logBPRedeemSinkDown(ss, name, coercedAmount(bpAmount), clock),
              logBPRedeemSinkDown(ss, name, coercedAmount(bpAmount), clock).ok)

NextSink ==
    \/ UpdateBPTotal
    \/ UpdateSinkDown
    \/ \E name \in Players : RedeemBP(name, Num(5))
    \/ \E name \in Players : RedeemSinkDown(name, Num(5))
    \/ \E name \in Players, amount \in AwardAmounts : AwardBP(name, amount)

SpecSink == Init /\ [][NextSink]_vars

-----------------------------------------------------------------------------
(* The flag extractor (bp_sync.js) on its own: Flag_Missions holds mission  *)
(* columns, with or without an explicit points column, and two player rows  *)
(* whose last-updated cell is empty or a number; mission cells are ticked,  *)
(* unticked and typed over, and the extractor is read.                      *)

FlagHeaderRows ==
    { <<"PreferredName", "Gravitational_Pull", "Side_Quest", "LastUpdated">>,
      <<"PreferredName", "Gravitational_Pull", "Flag Points", "LastUpdated">> }

FlagRowNames == { <<"Ada", "Bob">>, <<"Ada", "Ada">> }

\* What a mission cell may hold after an edit.
FlagCells == {Bool(TRUE), Bool(FALSE), Num(3), Str("yes")}

InitFlag ==
    /\ \E h \in FlagHeaderRows, names \in FlagRowNames, updated \in {Blank, Num(7)} :
          ss = [n \in SheetNames |->
                   IF n = "Flag_Missions"
                   THEN Sheet(<<StrRow(h)>>
                              \o [i \in 1..2 |-> <<Str(names[i]), Blank, Blank, updated>>])
                   ELSE NoSheet]
    /\ clock = 1
    /\ calls = <<>>
    /\ audit = <<>>
    /\ last = NoOp

\* Somebody edits the cell of column j in data row i of Flag_Missions.
EditFlagCell(i, j, val) ==
    /\ clock <= MaxClock
    /\ ss' = [ss EXCEPT !["Flag_Missions"] = setValue(ss["Flag_Missions"], i + 1, j, val)]
    /\ clock' = clock + 1
    /\ calls' = calls
    /\ audit' = audit
    /\ last' = Done("edit", "", 0, TRUE, "", 0)

\* The sync reads flagPoints[name] || 0.
ReadFlagPoints(name) ==
    /\ clock <= MaxClock
    /\ ss' = ss
    /\ clock' = clock + 1
    /\ calls' = calls
    /\ audit' = audit
    /\ last' = Done("flag", name, 0, TRUE, "", getFlagMissionPoints_(ss, name))

NextFlag ==
    \/ \E i \in 1..2, j \in 2..3, val \in FlagCells : EditFlagCell(i, j, val)
    \/ \E name \in Players : ReadFlagPoints(name)

SpecFlag == InitFlag /\ [][NextFlag]_vars

-----------------------------------------------------------------------------
(* Two redemptions in flight (part_000): nothing in the code takes a lock,  *)
(* so two invocations of logBPRedeemTransaction for the same player run     *)
(* step by step in any order: the balance check, the log append, and the    *)
(* reconciliation with the return.  Ada's balance was awarded before, and   *)
(* the log is empty.                                                        *)

RaceBalances == {10, 12}
RaceAmounts == {4, 7}
Invocations == {1, 2}

\* An invocation with its payload, its position and its local currentBalance;
\* `before` remembers the player's balance before either invocation began.
Invocation(name, amount, before) ==
    [pc |-> "check", name |-> name, amount |-> amount, currentBalance |-> 0,
     before |-> before]

InitRace ==
    /\ \E b \in RaceBalances, a1 \in RaceAmounts, a2 \in RaceAmounts :
          /\ ss = awardBP([LedgerWith(b) EXCEPT !["BP_Redeemed_Log"] = NoSheet],
                          "Ada", b, 0).s
          /\ calls = [i \in Invocations |->
                         Invocation("Ada", IF i = 1 THEN a1 ELSE a2, b)]
    /\ clock = 1
    /\ audit = <<>>
    /\ last = NoOp

\* const currentBalance = getPlayerBP(preferredName); a balance below the
\* amount ends the invocation with { success: false }.
CheckBalance(i) ==
    /\ calls[i].pc = "check"
    /\ calls' = [calls EXCEPT
                    ![i].currentBalance = getPlayerBP(ss, Trim(calls[i].name)),
                    ![i].pc = IF getPlayerBP(ss, Trim(calls[i].name)) < calls[i].amount
                              THEN "done" ELSE "append"]
    /\ last' = IF getPlayerBP(ss, Trim(calls[i].name)) < calls[i].amount
               THEN Done("redeem", calls[i].name, calls[i].amount, FALSE, "Insufficient BP", 0)
               ELSE last
    /\ UNCHANGED <<ss, clock, audit>>

\* ensureBPRedeemedLogSchema_() and logSheet.appendRow(rowData)
AppendRecord(i) ==
    /\ calls[i].pc = "append"
    /\ ss' = AppendLog(ensureBPRedeemedLogSchema_(ss), Trim(calls[i].name),
                       calls[i].amount, clock)
    /\ calls' = [calls EXCEPT ![i].pc = "sync"]
    /\ clock' = clock + 1
    /\ UNCHANGED <<audit, last>>

\* updateBPTotalFromSources(), the new balance, the audit entry and the return
SyncAndReturn(i) ==
    /\ calls[i].pc = "sync"
    /\ ss' = RedeemOutcome(updateBPTotalFromSources(ss, clock), Trim(calls[i].name)).s
    /\ audit' = audit \o RedeemOutcome(updateBPTotalFromSources(ss, clock),
                                       Trim(calls[i].name)).audit
    /\ last' = Done("redeem", calls[i].name, calls[i].amount,
                    RedeemOutcome(updateBPTotalFromSources(ss, clock), Trim(calls[i].name)).ok,
                    RedeemOutcome(updateBPTotalFromSources(ss, clock), Trim(calls[i].name)).err,
                    RedeemOutcome(updateBPTotalFromSources(ss, clock), Trim(calls[i].name)).ret)
    /\ calls' = [calls EXCEPT ![i].pc = "done"]
    /\ clock' = clock + 1

NextRace ==
    \/ \E i \in Invocations : CheckBalance(i)
    \/ \E i \in Invocations : AppendRecord(i)
    \/ \E i \in Invocations : SyncAndReturn(i)

SpecRace == InitRace /\ [][NextRace]_vars

-----------------------------------------------------------------------------
(* A full refresh, a source edit and the refresh the edit triggers, in      *)
(* flight together (bpSyncServis.js): each refresh reads BP_Total and the   *)
(* source sheets, computes in memory and writes back later, and nothing in  *)
(* the code takes a lock.  BP_Total starts in sync with the attendance      *)
(* sheet; Ada may have spent some of the points, and flag points of Bob may *)
(* wait for the next refresh.                                               *)

SyncedCurrent == {4, 10}

SyncedTotal(current) ==
    Sheet(<<StrRow(SYNC_HEADERS),
            <<Str("Ada"), Num(current), Num(10), Num(0), Num(0), Num(10), DateObj(0)>>,
            <<Str("Bob"), Num(0), Num(0), Num(0), Num(0), Num(0), DateObj(0)>>>>)

\* A refresh that has not started: its position, the name it was called
\* with, what it read and its `now`.
Waiting == [pc |-> "wait", name |-> "", read |-> <<>>, now |-> 0]

InitLost ==
    /\ \E c \in SyncedCurrent, pending \in BOOLEAN :
          /\ ss = [n \in SheetNames |->
                      IF n = "BP_Total" THEN SyncedTotal(c)
                      ELSE IF n = "Attendance_Missions"
                      THEN Sheet(<<StrRow(SourceHeader(n)), <<Str("Ada"), Num(10)>>>>)
                      ELSE IF n = "Flag_Missions" /\ pending
                      THEN Sheet(<<StrRow(SourceHeader(n)), <<Str("Bob"), Num(5)>>>>)
                      ELSE NoSheet]
          /\ calls = [full |-> [Waiting EXCEPT !.pc = "read"], player |-> Waiting,
                      before |-> SyncedTotal(c)]
    /\ clock = 1
    /\ audit = <<>>
    /\ last = NoOp

\* refreshBP_Total up to `const now = new Date()`: BP_Total and the three
\* source sheets are read.
FullRead ==
    /\ calls.full.pc = "read"
    /\ calls' = [calls EXCEPT !.full = [pc |-> "write", name |-> "", read |-> ss,
                                        now |-> clock]]
    /\ clock' = clock + 1
    /\ UNCHANGED <<ss, audit, last>>

\* The loop over what was read, and bodyRange.setValues(bpValues.slice(1))
\* with the audit entry when a row changed.
FullWrite ==
    /\ calls.full.pc = "write"
    /\ ss' = IF refreshBP_Total(calls.full.read, calls.full.now).ret = 0 THEN ss
             ELSE [ss EXCEPT !["BP_Total"] =
                      setValues(ss["BP_Total"], 2, 1,
                                Tail(refreshBP_Total(calls.full.read, calls.full.now)
                                         .s["BP_Total"].data))]
    /\ audit' = audit \o refreshBP_Total(calls.full.read, calls.full.now).audit
    /\ last' = Done("refreshAll", "", 0, TRUE, "",
                    refreshBP_Total(calls.full.read, calls.full.now).ret)
    /\ calls' = [calls EXCEPT !.full.pc = "done"]
    /\ UNCHANGED clock

\* Somebody types a name and a point value into the first data row of a
\* watched source sheet; onEditBPSync_ reads the name of the edited row and
\* calls refreshBP_ForPlayer_ with it.
EditAndTrigger(t, name, v) ==
    /\ calls.player.pc = "wait"
    /\ ss' = [ss EXCEPT ![t] =
                 setValues(IF ss[t].exists THEN ss[t] ELSE Sheet(<<StrRow(SourceHeader(t))>>),
                           2, 1, <<<<Str(name), Num(v)>>>>)]
    /\ calls' = [calls EXCEPT !.player.pc = "read", !.player.name = Trim(name)]
    /\ last' = Done("edit", name, v, TRUE, "", 0)
    /\ UNCHANGED <<clock, audit>>

\* refreshBP_ForPlayer_ up to `const now = new Date()`
PlayerRead ==
    /\ calls.player.pc = "read"
    /\ calls' = [calls EXCEPT !.player.pc = "write", !.player.read = ss,
                              !.player.now = clock]
    /\ clock' = clock + 1
    /\ UNCHANGED <<ss, audit, last>>

\* The row found in what was read, and setValues([row]) at its index with
\* the audit entry when the row changed.
PlayerWrite ==
    /\ calls.player.pc = "write"
    /\ ss' = IF refreshBP_ForPlayer_(calls.player.read, calls.player.name,
                                     calls.player.now).ret = 0 THEN ss
             ELSE [ss EXCEPT !["BP_Total"] =
                      setValues(ss["BP_Total"],
                                TargetRow(getValues(calls.player.read["BP_Total"]),
                                          SyncColumns(getValues(calls.player.read["BP_Total"])[1]),
                                          calls.player.name),
                                1,
                                <<refreshBP_ForPlayer_(calls.player.read, calls.player.name,
                                                       calls.player.now).s["BP_Total"].data[
                                      TargetRow(getValues(calls.player.read["BP_Total"]),
                                                SyncColumns(getValues(calls.player.read["BP_Total"])[1]),
                                                calls.player.name)]>>)]
    /\ audit' = audit \o refreshBP_ForPlayer_(calls.player.read, calls.player.name,
                                              calls.player.now).audit
    /\ last' = Done("refreshOne", calls.player.name, 0, TRUE, "",
                    refreshBP_ForPlayer_(calls.player.read, calls.player.name,
                                         calls.player.now).ret)
    /\ calls' = [calls EXCEPT !.player.pc = "done"]
    /\ UNCHANGED clock

NextLost ==
    \/ FullRead
    \/ FullWrite
    \/ \E t \in SyncSourceTables, name \in TypedNames :
          \E v \in SourceValues(t) : EditAndTrigger(t, name, v)
    \/ PlayerRead
    \/ PlayerWrite

SpecLost == InitLost /\ [][NextLost]_vars

-----------------------------------------------------------------------------
(* The incremental path (bpSyncServis.js, bpAggregator.js) as a state      *)
(* machine: BP_Total holds rows entered before any sync ran; cells and      *)
(* headers of the source sheets are edited, each edit followed by the       *)
(* simple trigger onEditBPSync_, and the two per-player refreshes are       *)
(* called by name.                                                          *)

WatchedSheets == {"Attendance_Missions", "Flag_Missions", "Dice Roll Points"}

\* The sheets somebody edits: the watched ones and one the sync does not watch.
EditedTables == WatchedSheets \cup {"Dice_Points"}

\* The names the per-player refreshes are called with; Cy has no row.
RefreshNames == TypedNames \cup {"Cy"}

\* String(sheet.getRange(row, col).getValue() || '').trim()
EditedName(values, row, col) ==
    IF Falsy(Cell(values, row, col)) THEN "" ELSE Trim(CellText(Cell(values, row, col)))

\* try { ... } catch (err) { console.error(...) }: an exception ends the
\* handler and is not passed on.
CatchAndLog(r) == [r EXCEPT !.threw = FALSE, !.err = ""]

\* onEditBPSync_(e) for an edit at the given row of the named sheet.
onEditBPSync_(s, sheetName, row, now) ==
    IF sheetName \notin WatchedSheets THEN Returned(s, 0, <<>>)
    ELSE IF row = 1 THEN Returned(s, 0, <<>>)
    ELSE IF mapSyncHeaders_(getValues(s[sheetName])[1], "PreferredName") = 0
    THEN Returned(s, 0, <<>>)
    ELSE IF EditedName(getValues(s[sheetName]), row,
                       mapSyncHeaders_(getValues(s[sheetName])[1], "PreferredName")) = ""
    THEN Returned(s, 0, <<>>)
    ELSE CatchAndLog(refreshBP_ForPlayer_(s,
             EditedName(getValues(s[sheetName]), row,
                        mapSyncHeaders_(getValues(s[sheetName])[1], "PreferredName")), now))

\* The sheet t as it exists when somebody types into it.
SheetToEdit(s, t) == IF s[t].exists THEN s[t] ELSE Sheet(<<StrRow(SourceHeader(t))>>)

InitTouch ==
    /\ \E c \in StoredCurrent, h \in StoredHistorical :
          ss = [n \in SheetNames |->
                   IF n = "BP_Total"
                   THEN Sheet(<<StrRow(SYNC_HEADERS), StoredRow("Ada", c, h),
                                StoredRow("Bob", 0, 0)>>)
                   ELSE NoSheet]
    /\ clock = 1
    /\ calls = <<>>
    /\ audit = <<>>
    /\ last = NoOp

\* Somebody types a name and a point value into data row i of a source sheet,
\* and the trigger runs on the edited spreadsheet.
EditCellTriggered(t, i, name, v) ==
    /\ clock <= MaxClock
    /\ i <= getLastRow(SheetToEdit(ss, t))
    /\ Finish("onEdit", t, i + 1,
              onEditBPSync_([ss EXCEPT ![t] = setValues(SheetToEdit(ss, t), i + 1, 1,
                                                        <<<<Str(name), Num(v)>>>>)],
                            t, i + 1, clock),
              TRUE)

\* Somebody retypes the header of the points column of a source sheet, and
\* the trigger runs on the edited spreadsheet.
EditHeaderTriggered(t, text) ==
    /\ clock <= MaxClock
    /\ Finish("onEdit", t, 1,
              onEditBPSync_([ss EXCEPT ![t] = setValues(SheetToEdit(ss, t), 1, 2,
                                                        <<<<Str(text)>>>>)],
                            t, 1, clock),
              TRUE)

NextTouch ==
    \/ \E t \in EditedTables, i \in 1..MaxSourceRows, name \in TypedNames :
          \E v \in SourceValues(t) : EditCellTriggered(t, i, name, v)
    \/ \E t \in EditedTables :
          \E text \in {"Points", SourceHeader(t)[2]} : EditHeaderTriggered(t, text)
    \/ \E name \in RefreshNames : RefreshPlayer(name)
    \/ \E name \in RefreshNames : RefreshBonusPlayer(name)

SpecTouch == InitTouch /\ [][NextTouch]_vars

-----------------------------------------------------------------------------
(* The threshold sync and the redemption entry points (bp_sync.js,          *)
(* part_001) as a state machine: BP_Total was synced from the source sheets, *)
(* points are deducted and redeemed as store credit with amounts of any     *)
(* sign, the source sheets are edited, and the sync runs again.             *)

DeductAmounts == {0 - 5, 0, 4, 20}

AttendanceAtStart == {10, 150}

\* A BP_Total row as provisioned for a player: the name and empty cells.
NameOnlyRow(name) == <<Str(name), Blank, Blank, Blank, Blank, Blank, Blank>>

\* The sheets before the first sync: Ada has attendance points, Bob may have
\* flag points.
BeforeFirstSync(a, bobHasFlag) ==
    [n \in SheetNames |->
        IF n = "BP_Total"
        THEN Sheet(<<StrRow(ENHANCED_HEADERS), NameOnlyRow("Ada"), NameOnlyRow("Bob")>>)
        ELSE IF n = "Attendance_Missions"
        THEN Sheet(<<StrRow(SourceHeader(n)), <<Str("Ada"), Num(a)>>>>)
        ELSE IF n = "Flag_Missions" /\ bobHasFlag
        THEN Sheet(<<StrRow(SourceHeader(n)), <<Str("Bob"), Num(5)>>>>)
        ELSE NoSheet]

InitDeduct ==
    /\ \E a \in AttendanceAtStart, bobHasFlag \in BOOLEAN :
          ss = bp_sync_updateBPTotalFromSources(BeforeFirstSync(a, bobHasFlag), 0).s
    /\ clock = 1
    /\ calls = <<>>
    /\ audit = <<>>
    /\ last = NoOp

DeductBP(name, amount) ==
    /\ clock <= MaxClock
    /\ Finish("deduct", name, amount, deductBP(ss, name, amount, clock),
              deductBP(ss, name, amount, clock).success)

SyncFromSources ==
    /\ clock <= MaxClock
    /\ Finish("bpSync", "", 0, bp_sync_updateBPTotalFromSources(ss, clock), TRUE)

NextDeduct ==
    \/ \E name \in Players, amount \in DeductAmounts : DeductBP(name, amount)
    \/ \E name \in Players, amount \in DeductAmounts : RedeemMemo(name, amount)
    \/ \E t \in {"Attendance_Missions", "Flag_Missions"}, i \in 1..MaxSourceRows,
          name \in Players :
          \E v \in SourceValues(t) : EditSource(t, i, name, v)
    \/ SyncFromSources

SpecDeduct == InitDeduct /\ [][NextDeduct]_vars

-----------------------------------------------------------------------------
(* What a reader of the spreadsheet sees *)

TotalOf(s) == getValues(s["BP_Total"])
LogOf(s) == getValues(s["BP_Redeemed_Log"])

\* The row of BP_Total that carries the player's name, 0 when there is none.
RowIn(s, p) == ExistingRow(TotalOf(s), indexOf(TotalOf(s)[1], "PreferredName"), p)

\* The cell of the player's row under the header h (blank without row or header).
FieldIn(s, p, h) == Cell(TotalOf(s), RowIn(s, p), indexOf(TotalOf(s)[1], h))
NumIn(s, p, h) == FieldIn(s, p, h).n

\* The sum of the BP_Amount cells of the log rows that carry the player's name.
LogSumIn(s, p) ==
    SumSeq([i \in 1..(Len(LogOf(s)) - 1) |->
               IF Trim(CellText(Cell(LogOf(s), i + 1, 2))) = p
               THEN Cell(LogOf(s), i + 1, 3).n ELSE 0])

\* The balance a reader finds under the header Current_BP in the first row that
\* holds exactly the player's name, 0 without such a row or header.
ReadBalance(s, p) ==
    coerceNumber(Cell(TotalOf(s), FindRow(TotalOf(s), indexOf(TotalOf(s)[1], "PreferredName"), p),
                      indexOf(TotalOf(s)[1], "Current_BP")), 0)

RosterNames(s) == NamesIn(RosterOf(s).names)

\* The last call ran a full reconciliation to its end.
Reconciled == (last.op = "update" \/ last.op = "redeem") /\ last.ok

\* The fields of a row other than its time stamp.
BalanceHeaders == NamesIn(BP_TOTAL_HEADERS) \ {"LastUpdated"}

-----------------------------------------------------------------------------
(* Claims about the redemption-ledger engine (part_000, part_001) *)

\* C1: after every completed updateBPTotalFromSources, every roster player's
\* row holds a number BP_Current with 0 <= BP_Current <= cap.
C1_CurrentWithinCap ==
    Reconciled =>
        \A p \in RosterNames(ss) :
            /\ FieldIn(ss, p, "BP_Current").k = "n"
            /\ 0 <= NumIn(ss, p, "BP_Current")
            /\ NumIn(ss, p, "BP_Current") <= BP_Global_Cap

C3_HistoricalIsCategorySum ==
    Reconciled =>
        \A p \in RosterNames(ss) :
            /\ FieldIn(ss, p, "BP_Historical") =
                   Num(NumIn(ss, p, "Attendance Mission Points")
                       + NumIn(ss, p, "Flag Mission Points")
                       + NumIn(ss, p, "Dice Roll Points"))
            /\ (NumIn(ss, p, "BP_Historical") - NumIn(ss, p, "BP_Redeemed")
                    \in 0..BP_Global_Cap)
                   => FieldIn(ss, p, "BP_Current") =
                          Num(NumIn(ss, p, "BP_Historical") - NumIn(ss, p, "BP_Redeemed"))

\* Attendance 10, flag 5, dice 0 and no redemptions: historical 15, current 15.
C3_Witness ==
    /\ last.op = "update" /\ last.ok
    /\ NumIn(ss, "Ada", "Attendance Mission Points") = 10
    /\ NumIn(ss, "Ada", "Flag Mission Points") = 5
    /\ NumIn(ss, "Ada", "Dice Roll Points") = 0
    /\ NumIn(ss, "Ada", "BP_Historical") = 15
    /\ NumIn(ss, "Ada", "BP_Redeemed") = 0
    /\ NumIn(ss, "Ada", "BP_Current") = 15

\* C6: a second updateBPTotalFromSources run right after a completed one, with
\* nothing changed in between, leaves every row's name, BP_Current, category
\* columns, BP_Historical and BP_Redeemed as they were and adds no rows.
C6_SecondRunKeepsBalances ==
    [][(last.op = "update" /\ last.ok /\ last'.op = "update")
         => /\ last'.ok
            /\ Len(TotalOf(ss')) = Len(TotalOf(ss))
            /\ \A i \in 1..Len(TotalOf(ss)) : \A h \in BalanceHeaders :
                   Cell(TotalOf(ss'), i, indexOf(TotalOf(ss')[1], h))
                       = Cell(TotalOf(ss), i, indexOf(TotalOf(ss)[1], h))]_vars

\* Two runs in succession over a roster whose player has points.
C6_Witness ==
    /\ last.op = "update" /\ last.ok /\ last.prevOp = "update" /\ last.prevOk
    /\ RowIn(ss, "Ada") > 0
    /\ NumIn(ss, "Ada", "BP_Historical") > 0

\* C7: when updateBPTotalFromSources runs and a player's derived fields all
\* equal the stored values, the player's row is not rewritten and its
\* LastUpdated stays as it was.
C7_UnchangedRowKeepsLastUpdated ==
    [][(last'.op = "update" /\ last'.ok)
         => \A p \in RosterNames(ss) :
                (/\ RowIn(ss, p) > 0
                 /\ \A h \in BalanceHeaders : FieldIn(ss', p, h) = FieldIn(ss, p, h))
                    => FieldIn(ss', p, "LastUpdated") = FieldIn(ss, p, "LastUpdated")]_vars

C9_RedeemWithinBalanceSucceeds ==
    [][(/\ last.op = "update" /\ last.ok
        /\ last'.op = "redeem"
        /\ last'.name \in RosterNames(ss)
        /\ last'.amount > 0
        /\ last'.amount <= NumIn(ss, last'.name, "BP_Current"))
         => /\ last'.ok
            /\ Len(LogOf(ss')) = Len(LogOf(ss)) + 1
            /\ Cell(LogOf(ss'), Len(LogOf(ss')), 2) = Str(last'.name)
            /\ Cell(LogOf(ss'), Len(LogOf(ss')), 3) = Num(last'.amount)]_vars

\* C10: after a successful redemption of a by p, the reconciled row of p has
\* BP_Redeemed = the redeemed total before the call + a, and the newBalance
\* reported is that row's BP_Current.
C10_RedeemThenReconcile ==
    [][(last'.op = "redeem" /\ last'.ok)
         => /\ FieldIn(ss', last'.name, "BP_Redeemed")
                   = Num(LogSumIn(ss, last'.name) + last'.amount)
            /\ Num(last'.ret) = FieldIn(ss', last'.name, "BP_Current")]_vars

-----------------------------------------------------------------------------
(* Claims about the delta-based sync (bpSyncServis.js) *)

SyncBalanceHeaders ==
    {"Current_BP", "Historical_BP", "Attendance Mission Points", "Flag Mission Points",
     "Dice Roll Points"}

\* C4: for any stored row of a player and any source state, the row that
\* refreshBP_ForPlayer_(name) leaves has the same Current_BP, Historical_BP
\* and category values as the row refreshBP_Total leaves from the same state.
C4_PlayerRefreshMatchesFull ==
    \A p \in Players :
        RowIn(ss, p) > 0 =>
            \A h \in SyncBalanceHeaders :
                NumIn(refreshBP_ForPlayer_(ss, p, clock).s, p, h)
                    = NumIn(refreshBP_Total(ss, clock).s, p, h)

\* E: the earned total of a player from the three source sheets.
EarnedTotal(s, p) == SyncPoints(s, p).att + SyncPoints(s, p).flag + SyncPoints(s, p).dice

\* The delta rule for stored values H and C and an earned total E.
DeltaRule(E, H, C, newH, newC) ==
    /\ E > H => newH = E /\ newC = clamp(C + (E - H), 0, BP_CURRENT_CAP)
    /\ E < H => newH = E /\ newC = clamp(C, 0, BP_CURRENT_CAP)
    /\ E = H => newH = H /\ newC = clamp(C, 0, BP_CURRENT_CAP)

\* C34: a refreshBP_Total run leaves every player row with Historical_BP = E
\* and Current_BP = clamp(C + (E - H), 0, cap) when the earned total E is above
\* the stored Historical_BP H, with Historical_BP = E and Current_BP =
\* clamp(C, 0, cap) when E is below H (a source decrease never lowers the
\* current balance), and with both values kept up to clamping when E = H.
C34_DeltaRule ==
    [][(last'.op = "refreshAll" /\ last'.ok)
          => \A p \in Players :
                 RowIn(ss, p) > 0
                     => DeltaRule(EarnedTotal(ss, p),
                                  NumIn(ss, p, "Historical_BP"), NumIn(ss, p, "Current_BP"),
                                  NumIn(ss', p, "Historical_BP"), NumIn(ss', p, "Current_BP"))]_vars

\* A refresh found Ada's earned total 10 above her stored Historical_BP and
\* her Current_BP of 98 plus the difference above the cap.
C34_Witness ==
    /\ last.op = "refreshAll" /\ last.ok /\ last.ret > 0
    /\ EarnedTotal(ss, "Ada") = 10
    /\ NumIn(ss, "Ada", "Historical_BP") = 10
    /\ NumIn(ss, "Ada", "Current_BP") = BP_CURRENT_CAP
    /\ FieldIn(ss, "Ada", "LastUpdated") = DateObj(clock - 1)

\* One of the five values of the player's row differs from what a refresh
\* computes for it: the category points of the sources, the earned total as
\* Historical_BP, and Current_BP raised by the positive delta and clamped.
ValueDiffers(s, p) ==
    \/ NumIn(s, p, "Attendance Mission Points") # SyncPoints(s, p).att
    \/ NumIn(s, p, "Flag Mission Points") # SyncPoints(s, p).flag
    \/ NumIn(s, p, "Dice Roll Points") # SyncPoints(s, p).dice
    \/ NumIn(s, p, "Historical_BP") # EarnedTotal(s, p)
    \/ NumIn(s, p, "Current_BP")
           # clamp(NumIn(s, p, "Current_BP")
                       + Max2(0, EarnedTotal(s, p) - NumIn(s, p, "Historical_BP")),
                   0, BP_CURRENT_CAP)

\* C35: a refreshBP_Total run stamps the LastUpdated of a row if and only if
\* one of its attendance, flag, dice, Historical_BP or Current_BP values
\* changes; it writes to the sheet and emits one BP_SYNC entry if and only if
\* some row changes; and a run directly after a run writes and logs nothing.
C35_ChangeDetection ==
    [][(last'.op = "refreshAll" /\ last'.ok)
          => /\ \A p \in Players :
                    RowIn(ss, p) > 0
                        => /\ ValueDiffers(ss, p)
                                  <=> FieldIn(ss', p, "LastUpdated") = DateObj(clock)
                           /\ ~ValueDiffers(ss, p)
                                  => FieldIn(ss', p, "LastUpdated")
                                         = FieldIn(ss, p, "LastUpdated")
             /\ (\E p \in Players : RowIn(ss, p) > 0 /\ ValueDiffers(ss, p))
                    <=> ss' # ss
             /\ audit' = IF ss' # ss THEN audit \o <<BP_SYNC_ENTRY>> ELSE audit
             /\ last.op = "refreshAll" => ss' = ss /\ audit' = audit]_vars

\* Two runs in a row: the first stamped Ada's row and logged, the second
\* changed no row, wrote nothing and logged nothing.
C35_Witness ==
    /\ last.op = "refreshAll" /\ last.ok /\ last.ret = 0
    /\ last.prevOp = "refreshAll" /\ last.prevOk
    /\ FieldIn(ss, "Ada", "LastUpdated") = DateObj(clock - 2)
    /\ audit = <<BP_SYNC_ENTRY>>

-----------------------------------------------------------------------------
(* Claims about the aggregator (bpAggregator.js) *)

\* Columns B to F of BP_Total: Current_BP, the three categories, Historical_BP.
AggBalanceCols == 2..6

\* The numbers a row of BP_Total holds in columns B to F, 0 for a missing row.
AggCellsOf(data, r) == [j \in AggBalanceCols |-> Cell(data, r, j).n]

\* The balance cells of the player's row.
AggCells(data, p) == AggCellsOf(data, AggFindRow(data, p))

AggSame(name) ==
    AggCells(TotalOf(refreshBonusPointsForPlayer_(ss, name, clock).s), Trim(name))
        = AggCells(TotalOf(refreshAllBonusPoints(ss, clock).s), Trim(name))

\* C5 as stated: for any source state and any player, with or without a row
\* in BP_Total, refreshBonusPointsForPlayer_(name) leaves the same Current_BP,
\* category values and Historical_BP for the player as refreshAllBonusPoints
\* leaves from the same state.
C5_AsStated == \A name \in TypedNames : AggSame(name)

\* C5, amended: the same, in every state where the BP_Total sheet exists.
\* Without the sheet the per-player refresh writes nothing.
C5_PlayerRefreshMatchesFull ==
    ss["BP_Total"].exists => \A name \in TypedNames : AggSame(name)

\* A per-player refresh has just written Ada's row from an attendance of 150:
\* the balance is clamped to 100, and a full refresh would write the same.
C5_Witness ==
    /\ last.op = "aggOne"
    /\ Trim(last.name) = "Ada"
    /\ AggCells(TotalOf(ss), "Ada")[2] = 100
    /\ AggCells(TotalOf(ss), "Ada")[6] >= 150
    /\ AggCells(TotalOf(ss), "Ada")
           = AggCells(TotalOf(refreshAllBonusPoints(ss, clock).s), "Ada")

-----------------------------------------------------------------------------
(* Claims about failures of the ledger engine (part_000) *)

\* The records of the redemption log: its rows below the header row.
LogRecords(s) == Tail(LogOf(s))

\* The errors logBPRedeemTransaction reports for a payload it finds invalid.
ValidationErrors ==
    {"Missing preferredName", "preferredName cannot be empty", "bpAmount must be positive"}

\* C11: whenever logBPRedeemTransaction returns success:false, whatever the
\* cause (a failure of the reconciliation it triggers included), the
\* redemption log holds exactly the records it held before the call.
C11_FailedRedeemKeepsLog ==
    [][(last'.op = "redeem" /\ ~last'.ok) => LogRecords(ss') = LogRecords(ss)]_vars

\* C12: logBPRedeemTransaction called with an amount that is zero, negative or
\* not a number, or with a missing or blank player name, returns a failure
\* value with a validation error, appends nothing to the redemption log and
\* leaves BP_Total (and every other sheet) as it was.
C12_InvalidPayloadRefused ==
    [][(last'.op = "redeem" /\ (last'.amount <= 0 \/ Trim(last'.name) = ""))
         => /\ ~last'.ok
            /\ last'.err \in ValidationErrors
            /\ ss' = ss
            /\ audit' = audit]_vars

\* A redemption of a non-positive amount was just refused for Ada, who holds a
\* balance and a row in BP_Total.
C12_Witness ==
    /\ last.op = "redeem"
    /\ last.name = "Ada"
    /\ last.amount <= 0
    /\ last.err = "bpAmount must be positive"
    /\ ReadBalance(ss, "Ada") > 0

\* C13: the redemption log is append-only: no call modifies or removes a
\* record, a successful logBPRedeemTransaction adds exactly one record, and
\* no other call (a failed redemption included) adds any.
C13_LogAppendOnly ==
    [][/\ Len(LogRecords(ss')) >= Len(LogRecords(ss))
       /\ SubSeq(LogRecords(ss'), 1, Len(LogRecords(ss))) = LogRecords(ss)
       /\ Len(LogRecords(ss')) =
              Len(LogRecords(ss)) + (IF last'.op = "redeem" /\ last'.ok THEN 1 ELSE 0)]_vars

\* C14: when neither PreferredNames nor Key_Tracker exists,
\* updateBPTotalFromSources fails with SHEET_MISSING and the spreadsheet is
\* exactly what it was before the call.
C14_RosterMissingWritesNothing ==
    [][(last'.op = "update" /\ RosterOf(ss).none)
         => /\ ~last'.ok
            /\ last'.err = "SHEET_MISSING"
            /\ ss' = ss]_vars

-----------------------------------------------------------------------------
(* Claims about source aggregation (part_000) *)

AttendanceOf(s) == getValues(s["Attendance_Missions"])

\* The header texts under which the attendance points may be stored, and
\* those under which the player name may be stored.
AttendancePointsHeaders ==
    {"Attendance Mission Points", "Attendance Points", "Attendance_Mission_Points", "Points"}

\* The attendance sheet has data rows and lacks a name column or a points column.
AttendanceUnresolvable(s) ==
    /\ Len(AttendanceOf(s)) > 1
    /\ \/ \A j \in 1..Len(AttendanceOf(s)[1]) :
             HeaderText(AttendanceOf(s)[1][j]) \notin keyAliases
       \/ \A j \in 1..Len(AttendanceOf(s)[1]) :
             HeaderText(AttendanceOf(s)[1][j]) \notin AttendancePointsHeaders

\* C15: when a source table has data rows but no resolvable name column or no
\* resolvable points column, updateBPTotalFromSources fails with
\* SCHEMA_INVALID and writes nothing to BP_Total.
C15_UnresolvableSourceFails ==
    [][(last'.op = "update" /\ AttendanceUnresolvable(ss))
         => /\ ~last'.ok
            /\ last'.err = "SCHEMA_INVALID"
            /\ ss'["BP_Total"] = ss["BP_Total"]]_vars

\* The points a source sheet with the columns (name, points) holds for a player.
PointsIn(s, t, p) ==
    SumSeq([i \in 1..(Len(getValues(s[t])) - 1) |->
               IF Trim(CellText(Cell(getValues(s[t]), i + 1, 1))) = p
               THEN Cell(getValues(s[t]), i + 1, 2).n ELSE 0])

\* C18: the dice total updateBPTotalFromSources writes for a player is the
\* sum of the player's points over all rows of 'Dice Roll Points' and of
\* 'Dice_Points'; neither table's value replaces the other's.
C18_DiceTablesSummed ==
    Reconciled =>
        \A p \in RosterNames(ss) :
            FieldIn(ss, p, "Dice Roll Points")
                = Num(PointsIn(ss, "Dice Roll Points", p) + PointsIn(ss, "Dice_Points", p))

\* A reconciliation ran with 3 dice points for Ada in one table and 4 in the
\* other, and wrote 7.
C18_Witness ==
    /\ Reconciled
    /\ PointsIn(ss, "Dice Roll Points", "Ada") = 3
    /\ PointsIn(ss, "Dice_Points", "Ada") = 4
    /\ FieldIn(ss, "Ada", "Dice Roll Points") = Num(7)

\* The spreadsheet with the points header of the attendance sheet replaced.
WithAttendanceHeader(s, h) ==
    [s EXCEPT !["Attendance_Missions"] = setValue(@, 1, 2, Str(h))]

\* C19: an attendance table whose points column is headed 'Attendance Points'
\* gives, through getPointsMapFromSheet_ and updateBPTotalFromSources, the
\* same attendance totals as the same table headed 'Attendance Mission Points'.
C19_SynonymHeaderSameTotals ==
    AttendanceOf(ss)[1] = StrRow(<<"PreferredName", "Attendance Points">>) =>
        \A p \in Players :
            /\ getPointsMapFromSheet_(ss, "Attendance_Missions", "PreferredName",
                                      "Attendance Mission Points", p)
                   = getPointsMapFromSheet_(
                         WithAttendanceHeader(ss, "Attendance Mission Points"),
                         "Attendance_Missions", "PreferredName",
                         "Attendance Mission Points", p)
            /\ FieldIn(updateBPTotalFromSources(ss, clock).s, p, "Attendance Mission Points")
                   = FieldIn(updateBPTotalFromSources(
                                 WithAttendanceHeader(ss, "Attendance Mission Points"),
                                 clock).s, p, "Attendance Mission Points")

CategoryHeaders == {"Attendance Mission Points", "Flag Mission Points", "Dice Roll Points"}

\* C20: every category total a reconciliation writes to BP_Total is a number
\* >= 0 whatever the source cells hold, and a sheet whose rows all carry a
\* blank name gives every player 0.
C20_CategoryTotalsNonNegative ==
    Reconciled =>
        \A p \in RosterNames(ss) :
            /\ \A h \in CategoryHeaders : FieldIn(ss, p, h).k = "n" /\ NumIn(ss, p, h) >= 0
            /\ (\A i \in 2..Len(AttendanceOf(ss)) :
                    Trim(CellText(Cell(AttendanceOf(ss), i, 1))) = "")
                   => NumIn(ss, p, "Attendance Mission Points") = 0

-----------------------------------------------------------------------------
(* Claims about schema enforcement (part_000) *)

\* Column j of a sheet, header cell first.
ColumnOf(data, j) == [i \in 1..Len(data) |-> Cell(data, i, j)]

\* The canonical field a header cell stands for (the header itself when it
\* is no synonym).
FieldOfHeader(c) == BP_HEADER_SYNONYMS(HeaderText(c))

\* C16: after ensureBPTotalSchema_ ran on a sheet with a header row, every
\* column whose header is not recognised keeps its header and its cells, and
\* the cells under each canonical header are cells that were stored under
\* that header or one of its synonyms before.
C16_SchemaKeepsForeignColumns ==
    [][(last'.op = "ensure" /\ getLastRow(ss["BP_Total"]) > 0)
         => \A j \in 1..getLastColumn(ss["BP_Total"]) :
               /\ FieldOfHeader(TotalOf(ss)[1][j]) \notin NamesIn(BP_TOTAL_HEADERS)
                      => ColumnOf(TotalOf(ss'), j) = ColumnOf(TotalOf(ss), j)
               /\ HeaderText(TotalOf(ss')[1][j]) \in NamesIn(BP_TOTAL_HEADERS)
                      => FieldOfHeader(TotalOf(ss)[1][j]) = HeaderText(TotalOf(ss')[1][j])]_vars

\* The first eight header cells are the canonical headers.
HeadersCanonical(s) ==
    /\ getLastColumn(s["BP_Total"]) >= Len(BP_TOTAL_HEADERS)
    /\ SubSeq(TotalOf(s)[1], 1, Len(BP_TOTAL_HEADERS)) = StrRow(BP_TOTAL_HEADERS)

\* C17: ensureBPTotalSchema_ changes nothing on a sheet whose headers are
\* canonical, and from any sheet running it twice leaves the sheet that
\* running it once leaves.
C17_SchemaIdempotent ==
    /\ HeadersCanonical(ss) => ensureBPTotalSchema_(ss) = ss
    /\ ensureBPTotalSchema_(ensureBPTotalSchema_(ss)) = ensureBPTotalSchema_(ss)

\* The schema was ensured twice on a sheet that holds data and a column of
\* notes; the second run left the sheet as the first had left it.
C17_Witness ==
    /\ last.op = "ensure"
    /\ last.prevOp = "ensure"
    /\ HeadersCanonical(ss)
    /\ getLastRow(ss["BP_Total"]) > 1
    /\ \E j \in 1..getLastColumn(ss["BP_Total"]) : TotalOf(ss)[1][j] = Str("Notes")
    /\ ensureBPTotalSchema_(ss) = ss

-----------------------------------------------------------------------------
(* Claims about the query and adjustment facade (part_000) *)

\* The data rows of BP_Total other than the player's row are as they were.
OtherRowsKept(s, t, p) ==
    /\ Len(TotalOf(t)) = Len(TotalOf(s))
    /\ \A i \in 1..Len(TotalOf(s)) : i # RowIn(s, p) => TotalOf(t)[i] = TotalOf(s)[i]

\* C21: adjustBPHistorical(name, delta, reason) on a player with a row
\* succeeds, sets BP_Historical to its previous value plus delta and BP_Current
\* to clamp(newHistorical - stored BP_Redeemed, 0, cap), returns
\* { previousHistorical, newHistorical, newCurrent } as stored, and leaves
\* BP_Redeemed, the three category columns and every other row unchanged.
C21_AdjustSetsHistoricalAndCurrent ==
    [][(last'.op = "adjust" /\ RowIn(ss, last'.name) > 0)
         => /\ last'.ok
            /\ FieldIn(ss', last'.name, "BP_Historical")
                   = Num(NumIn(ss, last'.name, "BP_Historical") + last'.amount)
            /\ FieldIn(ss', last'.name, "BP_Current")
                   = Num(clamp(NumIn(ss, last'.name, "BP_Historical") + last'.amount
                                   - NumIn(ss, last'.name, "BP_Redeemed"),
                               0, BP_Global_Cap))
            /\ last'.ret = [previousHistorical |-> NumIn(ss, last'.name, "BP_Historical"),
                            newHistorical |-> NumIn(ss', last'.name, "BP_Historical"),
                            newCurrent |-> NumIn(ss', last'.name, "BP_Current")]
            /\ \A h \in CategoryHeaders \cup {"BP_Redeemed"} :
                   FieldIn(ss', last'.name, h) = FieldIn(ss, last'.name, h)
            /\ OtherRowsKept(ss, ss', last'.name)]_vars

\* C22: adjustBPHistorical for a player without a row in BP_Total, or with
\* BP_Total absent, returns a failure that says so instead of throwing, writes
\* nothing to any sheet and logs nothing.
C22_AdjustUnknownPlayerFails ==
    [][(last'.op = "adjust" /\ RowIn(ss, last'.name) = 0)
         => /\ ~last'.ok
            /\ last'.err = (IF ss["BP_Total"].exists THEN "Player not found in BP_Total"
                            ELSE "BP_Total not found")
            /\ ss' = ss
            /\ audit' = audit]_vars

\* An adjustment was refused for a name without a row while other players have rows.
C22_Witness ==
    /\ last.op = "adjust" /\ ~last.ok /\ last.err = "Player not found in BP_Total"
    /\ last.name = "Cy"
    /\ RowIn(ss, "Ada") > 0
    /\ RowIn(ss, "Cy") = 0

\* The player's row shows no adjustment: BP_Historical is the sum of the row's
\* category points and BP_Current is BP_Historical - BP_Redeemed whenever that
\* lies in [0, cap].
RowFromSources(s, p) ==
    /\ FieldIn(s, p, "BP_Historical") =
           Num(NumIn(s, p, "Attendance Mission Points") + NumIn(s, p, "Flag Mission Points")
               + NumIn(s, p, "Dice Roll Points"))
    /\ (NumIn(s, p, "BP_Historical") - NumIn(s, p, "BP_Redeemed") \in 0..BP_Global_Cap)
           => FieldIn(s, p, "BP_Current") =
                  Num(NumIn(s, p, "BP_Historical") - NumIn(s, p, "BP_Redeemed"))

\* C23 as stated: after a successful adjustBPHistorical(name, delta) with
\* delta # 0, an updateBPTotalFromSources run over unchanged sources leaves the
\* player's BP_Historical equal to the category sum and BP_Current derived
\* from it, for every player that was adjusted.
C23_AsStated ==
    [][(last.op = "adjust" /\ last.ok /\ last.amount # 0 /\ last'.op = "update")
         => last'.ok /\ RowFromSources(ss', last.name)]_vars

\* C23: the same for a player the roster lists; the row of a player who is not
\* on the roster is not reconciled and keeps the adjustment.
C23_ReconcileOverwritesAdjustment ==
    [][(/\ last.op = "adjust" /\ last.ok /\ last.amount # 0
        /\ last.name \in RosterNames(ss)
        /\ last'.op = "update")
         => last'.ok /\ RowFromSources(ss', last.name)]_vars

\* A reconciliation ran right after a successful adjustment of a roster player
\* (every player with a row is on the roster) and the rows show the sources again.
C23_Witness ==
    /\ last.op = "update" /\ last.ok /\ last.prevOp = "adjust" /\ last.prevOk
    /\ RosterNames(ss) = {"Ada", "Bob"}
    /\ NumIn(ss, "Ada", "BP_Historical") = 10
    /\ RowFromSources(ss, "Ada") /\ RowFromSources(ss, "Bob")

\* The fields of the player's row as a breakdown record.
StoredBreakdown(s, p) ==
    [current |-> NumIn(s, p, "BP_Current"),
     attendance |-> NumIn(s, p, "Attendance Mission Points"),
     flag |-> NumIn(s, p, "Flag Mission Points"),
     dice |-> NumIn(s, p, "Dice Roll Points"),
     historical |-> NumIn(s, p, "BP_Historical"),
     redeemed |-> NumIn(s, p, "BP_Redeemed"),
     lastUpdated |-> FieldIn(s, p, "LastUpdated")]

\* C24: queried right after a completed updateBPTotalFromSources, getBPBalance
\* returns the BP_Current stored in the player's row and getPlayerBPBreakdown
\* returns the row's stored fields; for a name without a row they return 0
\* and the all-zero defaults.
C24_QueriesReadStoredRow ==
    (last.op = "query" /\ last.prevOp = "update" /\ last.prevOk)
        => IF RowIn(ss, last.name) > 0
           THEN /\ last.ret = NumIn(ss, last.name, "BP_Current")
                /\ getPlayerBPBreakdown(ss, last.name) = StoredBreakdown(ss, last.name)
           ELSE /\ last.ret = 0
                /\ getPlayerBPBreakdown(ss, last.name) = defaults

-----------------------------------------------------------------------------
(* Claims about the award service (part_001) *)

\* The Total_Overflow of the player's row in Prestige_Overflow, 0 without one.
OverflowOf(s, p) ==
    coerceNumber(Cell(getValues(s["Prestige_Overflow"]),
                      FindRow(getValues(s["Prestige_Overflow"]), 1, p), 2), 0)

\* What the last call added to the player's points: an award adds its amount,
\* a store-credit redemption takes its amount, a failed call changes nothing.
EarnedBy(l, p) ==
    IF l.name = p /\ l.ok /\ l.op = "award" THEN l.amount
    ELSE IF l.name = p /\ l.ok /\ l.op = "memo" THEN 0 - l.amount
    ELSE 0

\* C25: no player has a row at the start (Current_BP + Total_Overflow = 0), and
\* every call changes Current_BP + Total_Overflow of every player by exactly
\* what it awarded to or redeemed from that player, with Current_BP <= cap:
\* after any sequence of calls Current_BP + Total_Overflow + sum of the
\* redemptions = sum of the awards.
C25_OverflowConservation ==
    [][\A p \in Players :
          /\ last.op = "init" => ReadBalance(ss, p) + OverflowOf(ss, p) = 0
          /\ ReadBalance(ss', p) + OverflowOf(ss', p)
                 = ReadBalance(ss, p) + OverflowOf(ss, p) + EarnedBy(last', p)
          /\ ReadBalance(ss', p) <= BP_Global_Cap]_vars

\* 150 points were awarded to a player without a row: current 100, overflow 50.
C25_Witness ==
    /\ last.op = "award" /\ last.ok /\ last.amount = 150 /\ last.prevOp = "init"
    /\ ReadBalance(ss, last.name) = 100
    /\ OverflowOf(ss, last.name) = 50

-----------------------------------------------------------------------------
(* Claims about the rows of BP_Total *)

\* A data row of BP_Total carries the name in column A, the name column of
\* every engine (the aggregator heads it 'preferred_name_id').
HasRow(s, p) == \E i \in 2..Len(TotalOf(s)) : Trim(CellText(Cell(TotalOf(s), i, 1))) = p

C27_OneRowPerPlayer ==
    \A i, j \in 2..Len(TotalOf(ss)) :
        (/\ Trim(CellText(Cell(TotalOf(ss), i, 1))) = Trim(CellText(Cell(TotalOf(ss), j, 1)))
         /\ Trim(CellText(Cell(TotalOf(ss), i, 1))) # "")
            => i = j

\* C28: with no manual adjustment made so far, an updateBPTotalFromSources
\* run never lowers the BP_Historical stored in a player's row, whatever
\* edits the source sheets received since the row was written.
C28_HistoricalNeverDecreases ==
    [][(/\ last'.op = "update" /\ last'.ok
        /\ \A k \in 1..Len(audit) : audit[k].action # "BP_ADJUST")
         => \A p \in Players :
                RowIn(ss, p) > 0
                    => NumIn(ss', p, "BP_Historical") >= NumIn(ss, p, "BP_Historical")]_vars

-----------------------------------------------------------------------------
(* Claims about the audit trail *)

\* C29: when logIntegrityAction fails, an updateBPTotalFromSources run that
\* would complete with a working sink still completes and returns the same
\* count, and a redemption that appended its record and would succeed with a
\* working sink is reported as successful.
C29_SinkFailureDoesNotBlock ==
    [][/\ (last'.op = "updateSinkDown" /\ ~updateBPTotalFromSources(ss, clock).threw)
              => /\ last'.ok
                 /\ last'.ret = updateBPTotalFromSources(ss, clock).ret
       /\ (/\ last'.op = "redeemSinkDown"
           /\ Len(LogOf(ss')) > Len(LogOf(ss))
           /\ logBPRedeemTransaction(ss, last'.name, last'.amount, clock).ok)
              => last'.ok]_vars

\* A row was added to BP_Total, or a cell of a data row differs in a column
\* other than LastUpdated.
RowsChanged(s, t) ==
    \/ Len(TotalOf(t)) # Len(TotalOf(s))
    \/ \E i \in 2..Len(TotalOf(s)) : \E j \in 1..Len(TotalOf(t)[1]) :
          /\ j # indexOf(TotalOf(t)[1], "LastUpdated")
          /\ Cell(TotalOf(t), i, j) # Cell(TotalOf(s), i, j)

\* C30: a completed updateBPTotalFromSources run appends exactly one BP_SYNC
\* entry to the audit trail when it changed at least one row, and appends
\* nothing when no row's derived fields differ from the stored values.
C30_SyncEntryOnlyOnChange ==
    [][(last'.op = "update" /\ last'.ok)
         => SubSeq(audit', Len(audit) + 1, Len(audit'))
                = IF RowsChanged(ss, ss') THEN <<BP_SYNC_ENTRY>> ELSE <<>>]_vars

-----------------------------------------------------------------------------
(* Claims about the source extractors and the deduction (bp_sync.js) *)

FlagOf(s) == getValues(s["Flag_Missions"])

\* No header of the sheet is one of the explicit points headers.
NoFlagPointsColumn(s) ==
    \A j \in 1..Len(FlagOf(s)[1]) :
        FlagOf(s)[1][j] \notin {Str(FLAG_POINTS_COLS[k]) : k \in 1..Len(FLAG_POINTS_COLS)}

\* The mission columns: every column but the name and the last-updated column.
MissionCols(s) ==
    {j \in 1..Len(FlagOf(s)[1]) :
        FlagOf(s)[1][j] \notin {Str("PreferredName"), Str("LastUpdated")}}

\* The configured point value of a mission column, 1 when it has none.
ConfiguredValue(s, j) ==
    IF FlagOf(s)[1][j] = Str("Gravitational_Pull") THEN 5 ELSE 1

\* What the cell of row i in column j is worth under checkbox semantics.
CheckboxWorth(s, i, j) ==
    IF FlagOf(s)[i][j].k = "n" THEN FlagOf(s)[i][j].n
    ELSE IF FlagOf(s)[i][j] = Bool(TRUE) THEN ConfiguredValue(s, j)
    ELSE 0

RECURSIVE SumWorth(_, _, _)
SumWorth(s, i, cols) ==
    IF cols = {} THEN 0
    ELSE CheckboxWorth(s, i, CHOOSE j \in cols : TRUE)
             + SumWorth(s, i, cols \ {CHOOSE j \in cols : TRUE})

\* C31: when Flag_Missions has no explicit points column, the value
\* getFlagMissionPoints_ holds for a named player is, for the row that carries
\* the name (the last one when the name is repeated), the sum of the numeric
\* cells plus the configured value (1 without one) of every column whose cell
\* is true, the name and the last-updated column left out and false or text
\* cells counting 0.
C31_CheckboxFallback ==
    (last.op = "flag" /\ NoFlagPointsColumn(ss))
        => \A i \in 2..Len(FlagOf(ss)) :
               (/\ FlagOf(ss)[i][1] = Str(last.name)
                /\ \A k \in (i + 1)..Len(FlagOf(ss)) : FlagOf(ss)[k][1] # Str(last.name))
                   => last.ret = SumWorth(ss, i, MissionCols(ss))

\* Ada's row holds a ticked Gravitational_Pull, a 3 under Side_Quest and a
\* 7 under LastUpdated: the extractor gives 5 + 3.
C31_Witness ==
    /\ last.op = "flag" /\ last.name = "Ada" /\ NoFlagPointsColumn(ss)
    /\ FlagOf(ss)[3][1] = Str("Bob")
    /\ FlagOf(ss)[2][2] = Bool(TRUE)
    /\ FlagOf(ss)[2][3] = Num(3)
    /\ FlagOf(ss)[2][4] = Num(7)
    /\ last.ret = 8

-----------------------------------------------------------------------------
(* Claims about invocations in flight *)

\* C32: however the steps of two logBPRedeemTransaction invocations for the
\* same player interleave, the amounts the two have appended to the log never
\* add up to more than the player's balance before either began.
C32_NoOverspend ==
    \A i \in DOMAIN calls : LogSumIn(ss, calls[i].name) <= calls[i].before

\* The spreadsheet with its sources as they are and BP_Total as it was before
\* either refresh began, refreshed once.
RefreshedOnce == refreshBP_Total([ss EXCEPT !["BP_Total"] = calls.before], 0).s

\* C33: once a refreshBP_Total run and the refreshBP_ForPlayer_ run triggered
\* by a source edit have both finished, in whatever order their steps and the
\* edit were taken, the edited player's row holds the balances and category
\* values a single refresh over the final source sheets produces.
C33_NoLostUpdate ==
    (calls.full.pc = "done" /\ calls.player.pc = "done")
        => \A h \in SyncBalanceHeaders :
               NumIn(ss, calls.player.name, h) = NumIn(RefreshedOnce, calls.player.name, h)

-----------------------------------------------------------------------------
(* Claims about the incremental path (bpSyncServis.js, bpAggregator.js) *)

\* The rows of BP_Total, the header row included, that differ between two
\* spreadsheets (a row one of them lacks differs).
RowsTouched(s, t) ==
    {i \in 1..Len(TotalOf(t)) :
        i > Len(TotalOf(s)) \/ \E j \in 1..Len(TotalOf(t)[i]) :
                                  Cell(TotalOf(t), i, j) # Cell(TotalOf(s), i, j)}

\* The row the aggregator finds for a name: the first row whose first cell,
\* normalized, is the name; 0 when there is none.
AggRowOf(s, p) == AggFindRow(TotalOf(s), Trim(p))

\* C36: refreshBP_ForPlayer_ and refreshBonusPointsForPlayer_ change no cell
\* of BP_Total outside the row of the named player (or the one row appended
\* for that player), never drop a row, and an edit on the header row or on a
\* sheet that is not watched changes nothing in BP_Total; an edit of a data
\* row of a watched sheet changes one row at most.
C36_IncrementalTouchesOneRow ==
    [][/\ Len(TotalOf(ss')) >= Len(TotalOf(ss))
       /\ last'.op = "refreshOne" =>
             /\ RowsTouched(ss, ss') \subseteq {RowIn(ss, Trim(last'.name))}
             /\ Len(TotalOf(ss')) = Len(TotalOf(ss))
       /\ last'.op = "aggOne" =>
             RowsTouched(ss, ss') \subseteq
                 {IF AggRowOf(ss, last'.name) = 0 THEN Len(TotalOf(ss)) + 1
                  ELSE AggRowOf(ss, last'.name)}
       /\ (last'.op = "onEdit" /\ (last'.amount = 1 \/ last'.name \notin WatchedSheets)) =>
             ss'["BP_Total"] = ss["BP_Total"]
       /\ last'.op = "onEdit" => Cardinality(RowsTouched(ss, ss')) <= 1]_vars

\* A per-player refresh that followed an edit rewrote the player's row while
\* the row of the other player was out of date, and left that row alone.
C36_Witness ==
    /\ last.op = "refreshOne"
    /\ last.prevOp = "onEdit"
    /\ last.ret = 1
    /\ \E p \in {"Ada", "Bob"} :
          /\ p # Trim(last.name)
          /\ EarnedTotal(ss, p) # NumIn(ss, p, "Historical_BP")

\* C37: after deductBP(name, a) has succeeded with a > 0, a sync by
\* updateBPTotalFromSources (bp_sync.js) that follows with the source sheets
\* unchanged leaves the player's Current_BP no higher than deductBP wrote.
C37_SpentStaysSpent ==
    [][(/\ last.op = "deduct"
        /\ last.ok
        /\ last.amount > 0
        /\ last'.op = "bpSync")
          => getPlayerBP(ss', last.name) <= getPlayerBP(ss, last.name)]_vars

\* C38: for every amount, zero and negative ones included, a call to
\* redeemBP_StoreCreditMemo or deductBP leaves the player's Current_BP at or
\* below its value before the call.
C38_RedemptionNeverRaises ==
    [][last'.op \in {"deduct", "memo"}
          => getPlayerBP(ss', last'.name) <= getPlayerBP(ss, last'.name)]_vars

=============================================================================
